---------------------------- MODULE Spec2Model ----------------------------
(***************************************************************************)
(* State-machine model of the adalpha backend core:                        *)
(*   - SmartHistoryStore (src/app/services/smart_history_store.py): the    *)
(*     posts and tag_scores tables, the Python write lock, SQLite's write  *)
(*     transaction, and the store operations called by worker threads;     *)
(*   - StreamManager (src/app/services/stream_manager.py): the subscriber  *)
(*     registry, the bounded per-client queues and broadcast; start and    *)
(*     stop with their suspension points, the consumer and heartbeat       *)
(*     tasks, the SSE generators, and the ingestion of one market event.   *)
(* Time is a logical clock counted in hours (the unit of RETENTION_HOURS); *)
(* ISO timestamps compare as the instants they denote.  A store operation  *)
(* takes far less than one hour, so the clock advances between operations. *)
(***************************************************************************)
EXTENDS Integers, Sequences, FiniteSets, TLC

(* ------------------------------ bounds -------------------------------- *)
\* last hour of the clock
MaxTime == 3

\* operations started in one behaviour of Spec, of RetentionSpec, of ConcSpec
MaxCalls == 3

MaxRetentionCalls == 4

MaxConcCalls == 3

\* longest posts_data list given to batch_upsert_posts
MaxBatchLen == 2

\* capacity of a client queue: stands for Queue(maxsize=500), which is full in the same way
QueueMaxSize == 2

\* broadcasts made in one behaviour of StreamSpec
MaxBroadcasts == 5

\* operations started in one behaviour of IngestSpec
MaxIngestCalls == 3

\* tasks created in one behaviour (start() creates two)
MaxTasks == 4

\* broadcasts between the calls of register_client, unregister_client and stop()
MaxRegistryBroadcasts == 2

\* connections (sse_event_generator instances) opened in one behaviour
MaxConns == 2

\* broadcasts made by the background tasks in one behaviour
MaxTaskBroadcasts == 3

\* broadcasts made by the consumer loop in one behaviour of ConsumerSpec
MaxConsumerBroadcasts == 2

\* heartbeats sent in one behaviour of LifeSpec and ConnSpec
MaxLifeBroadcasts == 1

(* ------------------------- program constants -------------------------- *)
RETENTION_HOURS == 2

VACUUM_THRESHOLD == 100

DEFAULT_BATCH_SIZE == 20

DEFAULT_POSTS_LIMIT == 30

DEFAULT_SCORES_LIMIT == 50

(* ------------------------------ inputs -------------------------------- *)
Workers == {"w1", "w2"}

PlatformInputs == {"tiktok", "TikTok"}

TagInputs == {"ai", "#Art"}

PostIds == {"p1", "p2"}

\* current_batch_size: negative, zero, smaller than the stored posts, the default
BatchSizeInputs == {-1, 0, 1, 20}

ScoreInputs == {60}

\* the trend_score argument of save_tag_score called on its own
TagScoreInputs == {40, 60}

\* the tag argument of save_tag_score called on its own: two spellings of one tag and
\* another tag
SaveTagInputs == {"#Art", "#art", "ai"}

None == "None"

Fields == {"views", "likes", "comments", "shares", "saves"}

\* Counter dictionaries as the callers pass them; the keys in `nulls` are absent or None.
StatsInputs ==
    { [views |-> 10, likes |-> 4, comments |-> 3, shares |-> 2, saves |-> 0, nulls |-> {"saves"}],
      [views |-> 20, likes |-> 8, comments |-> 0, shares |-> 5, saves |-> 1, nulls |-> {"comments"}] }

ZeroStats == [views |-> 0, likes |-> 0, comments |-> 0, shares |-> 0, saves |-> 0]

DisplayFields == {"author", "title", "description", "content_url", "cover_url"}

\* the display arguments of upsert_post at their defaults
NoDisplay ==
    [author |-> "", title |-> "", description |-> "", content_url |-> "", cover_url |-> ""]

\* display arguments as callers pass them: all given, some left empty, a title longer
\* than 200 characters, a description longer than 500
DisplayInputs ==
    { NoDisplay,
      [author |-> "ann", title |-> "t1", description |-> "d1", content_url |-> "u1",
       cover_url |-> "c1"],
      [author |-> "", title |-> "long title", description |-> "", content_url |-> "u2",
       cover_url |-> ""],
      [author |-> "bob", title |-> "", description |-> "long description",
       content_url |-> "", cover_url |-> ""] }

\* title[:200] and description[:500] on the values the model feeds in
Cut(s) ==
    CASE s = "long title"       -> "long titl"
      [] s = "long description" -> "long descriptio"
      [] OTHER                  -> s

\* the display columns of the INSERT: author, title[:200] if title else "",
\* description[:500] if description else "", content_url, cover_url
InsertDisplay(d) == [d EXCEPT !.title = Cut(@), !.description = Cut(@)]

\* the display columns of the UPDATE: col = COALESCE(NULLIF(?, ''), col)
\* (faulty variant: col = ?)
UpdateDisplayMut(old, d) == d

UpdateDisplay(old, d) == [f \in DisplayFields |-> IF d[f] = "" THEN old[f] ELSE d[f]]

\* str.lower() on the platform names the model feeds in.
Lower(s) ==
    CASE s = "TikTok" -> "tiktok"
      [] s = "#Art"   -> "#art"
      [] OTHER        -> s

\* str.lstrip("#") on the lower-cased tags the model feeds in.
LStripHash(s) ==
    CASE s = "#art" -> "art"
      [] s = "#Art" -> "Art"
      [] s = "#ai"  -> "ai"
      [] OTHER      -> s

\* tag.lower().lstrip("#")
CleanTag(tag) == LStripHash(Lower(tag))

\* stats.get(k, 0) or 0
Coerce(stats, f) == IF f \in stats.nulls THEN 0 ELSE stats[f]

CoerceStats(stats) == [f \in Fields |-> Coerce(stats, f)]

\* unique_id = f"{platform}:{post_id}" (the platform as given, not lower-cased)
UniqueId(platform, post_id) == <<platform, post_id>>

\* the (platform, post_id) pair of the UNIQUE constraint
PostKey(platform, post_id) == <<Lower(platform), post_id>>

PostKeys == {PostKey(p, i) : p \in PlatformInputs, i \in PostIds}

\* tag_scores id = f"{platform.lower()}:{tag.lower().lstrip('#')}"
TagId(platform, tag) == <<Lower(platform), CleanTag(tag)>>

NoRow == [absent |-> TRUE]

(* ------------------------------- state -------------------------------- *)
VARIABLES
    now,          \* the clock, in hours
    posts,        \* committed posts table: unique_id -> row
    tagScores,    \* committed tag_scores table: (platform, tag) -> row
    writeLock,    \* holder of SmartHistoryStore._write_lock, or None
    dbLock,       \* connection holding SQLite's write transaction, or None
    pc,           \* each worker's position
    loc,          \* each worker's arguments, locals and return value
    calls,        \* number of operations started
    hist,         \* history per (platform, post_id): the upsert_post calls made on it since it was last absent
    clientOrder,  \* StreamManager._clients: insertion order of the client ids
    queues,       \* StreamManager._clients: client id -> queue contents
    clientInfo,   \* StreamManager._client_info: client id -> topics
    bcast,        \* outcome of the last broadcast call
    nBroadcasts,  \* number of broadcasts made
    running,      \* StreamManager._running
    tasks,        \* the asyncio tasks created by start(), in order of creation
    consumerTask, \* StreamManager._consumer_task: an index of tasks, or 0 for None
    heartbeatTask,\* StreamManager._heartbeat_task: an index of tasks, or 0 for None
    kafkaConsumer,\* StreamManager._kafka_consumer: the task that created it, or 0 for None
    closedConsumers, \* the Kafka consumers that were closed
    stopCoro,     \* the coroutine of stop(): where it is suspended
    conns,        \* the sse_event_generator instances, in order of creation
    queueOf       \* client id -> the connection whose Queue object is registered under it

storeVars == <<now, posts, tagScores, writeLock, dbLock, pc, loc, calls, hist>>

lifeVars == <<running, tasks, consumerTask, heartbeatTask, kafkaConsumer, closedConsumers,
              stopCoro, conns, queueOf>>

streamVars == <<clientOrder, queues, clientInfo, bcast, nBroadcasts, lifeVars>>

vars == <<now, posts, tagScores, writeLock, dbLock, pc, loc, calls, hist,
          clientOrder, queues, clientInfo, bcast, nBroadcasts,
          running, tasks, consumerTask, heartbeatTask, kafkaConsumer, closedConsumers,
          stopCoro, conns, queueOf>>


(* --------------------------- store queries ---------------------------- *)
PostRow(platform, tag, post_id, stats, t) ==
    [ id |-> UniqueId(platform, post_id), platform |-> Lower(platform), tag |-> CleanTag(tag),
      post_id |-> post_id, cur |-> stats, prev |-> ZeroStats,
      update_count |-> 1, last_updated_at |-> t, display |-> NoDisplay ]

\* UPDATE posts SET <counters>, prev_* = <prev>, last_updated_at, update_count = update_count + 1
\* (faulty variant: the UPDATE also sets the tag)
UpdatedRowMut(row, stats, prev, t) ==
    [row EXCEPT !.cur = stats, !.prev = prev, !.last_updated_at = t,
                !.update_count = row.update_count + 1, !.tag = "art"]

UpdatedRow(row, stats, prev, t) ==
    [row EXCEPT !.cur = stats, !.prev = prev, !.last_updated_at = t,
                !.update_count = row.update_count + 1]

\* INSERT INTO posts succeeds unless the PRIMARY KEY or UNIQUE(platform, post_id) is taken
\* (faulty variant: no constraint is enforced)
InsertConflictsMut(P, platform, post_id) == FALSE

InsertConflicts(P, platform, post_id) ==
    \/ UniqueId(platform, post_id) \in DOMAIN P
    \/ \E i \in DOMAIN P : P[i].platform = Lower(platform) /\ P[i].post_id = post_id

PutRow(P, id, row) == [x \in DOMAIN P \cup {id} |-> IF x = id THEN row ELSE P[x]]

DropRows(T, D) == [x \in DOMAIN T \ D |-> T[x]]

\* rows WHERE last_updated_at < cutoff
\* (faulty variant: the row at the cutoff itself counts as expired)
ExpiredMut(T, cutoff) == {i \in DOMAIN T : T[i].last_updated_at <= cutoff}

Expired(T, cutoff) == {i \in DOMAIN T : T[i].last_updated_at < cutoff}

RECURSIVE SumIds(_, _, _)
SumIds(P, I, f) ==
    IF I = {} THEN 0
    ELSE LET i == CHOOSE x \in I : TRUE IN P[i].cur[f] + SumIds(P, I \ {i}, f)

RECURSIVE SumPrevIds(_, _, _)
SumPrevIds(P, I, f) ==
    IF I = {} THEN 0
    ELSE LET i == CHOOSE x \in I : TRUE IN P[i].prev[f] + SumPrevIds(P, I \ {i}, f)

RECURSIVE SumUpdateCount(_, _)
SumUpdateCount(P, I) ==
    IF I = {} THEN 0
    ELSE LET i == CHOOSE x \in I : TRUE IN P[i].update_count + SumUpdateCount(P, I \ {i})

\* round(num/den, digits) with scale = 10^digits, as an integer number of 1/scale
\* (round-half-even; the quotients reached here are exact or not ties)
RoundScaled(num, den, scale) ==
    LET q == (num * scale) \div den
        r == (num * scale) % den
    IN  IF 2 * r > den THEN q + 1
        ELSE IF 2 * r < den THEN q
        ELSE IF q % 2 = 0 THEN q ELSE q + 1

\* WHERE platform = ? AND tag = ?  with (platform.lower(), tag.lower().lstrip("#"))
\* (faulty variant: the tag is not compared)
TagRowsMut(P, platform, tag) ==
    {i \in DOMAIN P : P[i].platform = Lower(platform)}

TagRows(P, platform, tag) ==
    {i \in DOMAIN P : P[i].platform = Lower(platform) /\ P[i].tag = CleanTag(tag)}

\* SUM(CASE WHEN update_count = 1 THEN 1 ELSE 0 END)
NewPosts(P, I) == Cardinality({i \in I : P[i].update_count = 1})

\* freshness as the fraction <<num, den>> before rounding
\* (faulty variant: the quotient is not capped at 1.0)
FreshnessMut(new_posts, post_count, current_batch_size) ==
    IF current_batch_size > 0
    THEN <<new_posts, current_batch_size>>
    ELSE IF post_count > 0 THEN <<new_posts, post_count>> ELSE <<0, 1>>

Freshness(new_posts, post_count, current_batch_size) ==
    IF current_batch_size > 0
    THEN IF new_posts > current_batch_size THEN <<1, 1>> ELSE <<new_posts, current_batch_size>>
    ELSE IF post_count > 0 THEN <<new_posts, post_count>> ELSE <<0, 1>>

\* thresholds 0.7 / 0.4 / 0.2 on the unrounded freshness
ActivityLevel(fr) ==
    IF 10 * fr[1] >= 7 * fr[2] THEN "very_active"
    ELSE IF 10 * fr[1] >= 4 * fr[2] THEN "active"
    ELSE IF 10 * fr[1] >= 2 * fr[2] THEN "moderate"
    ELSE "stale"

EmptyAgg ==
    [ current |-> ZeroStats, previous |-> ZeroStats, post_count |-> 0, new_posts |-> 0,
      freshness_milli |-> 1000, activity_level |-> "new", avg_update_centi |-> 0 ]

\* the aggregated_stats argument of save_tag_score called on its own: of a tag without
\* posts, and of a tag with two posts of which one is new
AggInputs ==
    { EmptyAgg,
      [ current |-> [views |-> 30, likes |-> 12, comments |-> 3, shares |-> 7, saves |-> 1],
        previous |-> [views |-> 10, likes |-> 4, comments |-> 3, shares |-> 2, saves |-> 0],
        post_count |-> 2, new_posts |-> 1, freshness_milli |-> 50,
        activity_level |-> "stale", avg_update_centi |-> 150 ] }

\* get_tag_aggregated_stats; freshness_rate in 1/1000, avg_update_count in 1/100
GetTagAggregatedStats(P, platform, tag, current_batch_size) ==
    LET I  == TagRows(P, platform, tag)
        n  == Cardinality(I)
        np == NewPosts(P, I)
        fr == Freshness(np, n, current_batch_size)
    IN  IF n = 0 THEN EmptyAgg
        ELSE [ current |-> [f \in Fields |-> SumIds(P, I, f)],
               previous |-> [f \in Fields |-> SumPrevIds(P, I, f)],
               post_count |-> n,
               new_posts |-> np,
               freshness_milli |-> RoundScaled(fr[1], fr[2], 1000),
               activity_level |-> ActivityLevel(fr),
               avg_update_centi |-> RoundScaled(SumUpdateCount(P, I), n, 100) ]

\* SELECT * FROM posts WHERE platform = ? AND tag = ? ORDER BY views DESC LIMIT ?
\* the possible result sets (rows of equal views come in any order)
GetPostsByTag(P, platform, tag, limit) ==
    LET I == TagRows(P, platform, tag)
        k == IF Cardinality(I) < limit THEN Cardinality(I) ELSE limit
    IN  { R \in SUBSET I :
            /\ Cardinality(R) = k
            /\ \A i \in R, j \in I \ R : P[i].cur.views >= P[j].cur.views }

\* SELECT * FROM tag_scores WHERE trend_score >= ? [AND platform = ?] [AND activity_level = ?]
\* ORDER BY trend_score DESC LIMIT ?
GetTagScores(T, platform, limit, min_score, activity_filter) ==
    LET I == { i \in DOMAIN T :
                 /\ T[i].trend_score >= min_score
                 /\ platform # None => T[i].platform = Lower(platform)
                 /\ activity_filter # None => T[i].activity_level = activity_filter }
        k == IF Cardinality(I) < limit THEN Cardinality(I) ELSE limit
    IN  { R \in SUBSET I :
            /\ Cardinality(R) = k
            /\ \A i \in R, j \in I \ R : T[i].trend_score >= T[j].trend_score }

\* the tag_scores row save_tag_score writes (ON CONFLICT keeps first_seen_at)
\* (faulty variant: the row is replaced whole, first_seen_at included)
TagRowMut(T, platform, tag, agg, trend_score, t) ==
    [ platform |-> Lower(platform), tag |-> CleanTag(tag),
      total |-> agg.current, prev_total |-> agg.previous,
      post_count |-> agg.post_count, new_posts_count |-> agg.new_posts,
      freshness_milli |-> agg.freshness_milli, activity_level |-> agg.activity_level,
      trend_score |-> trend_score, first_seen_at |-> t, last_updated_at |-> t ]

TagRow(T, platform, tag, agg, trend_score, t) ==
    LET id == TagId(platform, tag)
    IN  [ platform |-> Lower(platform), tag |-> CleanTag(tag),
          total |-> agg.current, prev_total |-> agg.previous,
          post_count |-> agg.post_count, new_posts_count |-> agg.new_posts,
          freshness_milli |-> agg.freshness_milli, activity_level |-> agg.activity_level,
          trend_score |-> trend_score,
          first_seen_at |-> IF id \in DOMAIN T THEN T[id].first_seen_at ELSE t,
          last_updated_at |-> t ]

(* ----------------------------- initial state --------------------------- *)
EmptyTable == [x \in {} |-> NoRow]

\* one posts_data element of batch_upsert_posts
BatchItemInputs ==
    { [platform |-> "tiktok", tag |-> "#Art", post_id |-> i,
       stats |-> CHOOSE s \in StatsInputs : s.views = 20] : i \in PostIds }

RECURSIVE SeqsUpTo(_, _)
SeqsUpTo(S, n) ==
    IF n = 0 THEN {<<>>}
    ELSE LET shorter == SeqsUpTo(S, n - 1)
         IN  shorter \cup {Append(q, x) : q \in {t \in shorter : Len(t) = n - 1}, x \in S}

BatchInputs == SeqsUpTo(BatchItemInputs, MaxBatchLen)

IdleLoc ==
    [ op |-> None, platform |-> None, tag |-> None, post_id |-> None, stats |-> ZeroStats,
      now |-> 0, existing |-> NoRow, items |-> <<>>, idx |-> 0, txn |-> EmptyTable,
      new_count |-> 0, updated_count |-> 0, cutoff |-> 0, posts_count |-> 0, tags_count |-> 0,
      agg |-> EmptyAgg, trend_score |-> 0, ret |-> None, raised |-> FALSE, writes |-> 0,
      display |-> NoDisplay, base |-> 0, freshness_rate |-> 0,
      dims |-> [H |-> 0, V |-> 0, D |-> 0, F |-> 0, M |-> 0] ]

\* history of one key: counters of the upsert_post calls that committed (done) and that
\* took the write lock (acq), whether only upsert_post wrote the key, whether two calls
\* overlapped, and the display arguments of the upsert_post calls that committed (shown)
InitHist == [done |-> <<>>, acq |-> <<>>, pure |-> TRUE, overlap |-> FALSE, shown |-> <<>>]

StoreInit ==
    /\ now = 0
    /\ posts = EmptyTable
    /\ tagScores = EmptyTable
    /\ writeLock = None
    /\ dbLock = None
    /\ pc = [w \in Workers |-> "idle"]
    /\ loc = [w \in Workers |-> IdleLoc]
    /\ calls = 0
    /\ hist = [k \in PostKeys |-> InitHist]

CanCall(w) == pc[w] = "idle"

Call(w, label, l) ==
    /\ pc' = [pc EXCEPT ![w] = label]
    /\ loc' = [loc EXCEPT ![w] = l]
    /\ calls' = calls + 1

Goto(w, label) == pc' = [pc EXCEPT ![w] = label]

\* `with self._write_lock:` followed by BEGIN IMMEDIATE: both are free
\* (faulty variant: the transaction begins without the lock)
CanBeginWriteMut(w) == TRUE

CanBeginWrite(w) == writeLock = None /\ dbLock = None

\* `with self._write_lock:` alone
CanLock(w) == writeLock = None

\* a statement that writes outside an explicit transaction waits for SQLite's write lock
CanWriteStatement(w) == dbLock = None \/ dbLock = w

InFlightUpsert(w, key) ==
    /\ pc[w] \in {"up_lock", "up_select", "up_write"}
    /\ PostKey(loc[w].platform, loc[w].post_id) = key

\* rows of key k are gone: its history starts again
ResetHist(h, P) ==
    [k \in PostKeys |-> IF \E i \in DOMAIN P : PostKey(P[i].platform, P[i].post_id) = k
                        THEN h[k] ELSE InitHist]

(* ------------------------------ upsert_post ---------------------------- *)
\* upsert_post(platform, tag, post_id, stats, author, title, description, content_url,
\* cover_url)
UpsertCallWith(w, platform, tag, post_id, stats, display) ==
    /\ CanCall(w)
    /\ Call(w, "up_lock", [IdleLoc EXCEPT !.op = "upsert_post", !.platform = platform,
                              !.tag = tag, !.post_id = post_id,
                              !.stats = CoerceStats(stats), !.now = now,
                              !.display = display])
    /\ hist' = [hist EXCEPT ![PostKey(platform, post_id)].overlap =
                   @ \/ \E v \in Workers \ {w} : InFlightUpsert(v, PostKey(platform, post_id))]
    /\ UNCHANGED <<now, posts, tagScores, writeLock, dbLock>>
    /\ UNCHANGED streamVars

\* upsert_post(platform, tag, post_id, stats): the display arguments at their defaults
UpsertCall(w, platform, tag, post_id, stats) ==
    UpsertCallWith(w, platform, tag, post_id, stats, NoDisplay)

UpsertBegin(w) ==
    /\ pc[w] = "up_lock"
    /\ CanBeginWrite(w)
    /\ writeLock' = w
    /\ dbLock' = w
    /\ Goto(w, "up_select")
    /\ hist' = [hist EXCEPT ![PostKey(loc[w].platform, loc[w].post_id)].acq =
                   Append(@, loc[w].stats)]
    /\ UNCHANGED <<now, posts, tagScores, loc, calls>>
    /\ UNCHANGED streamVars

\* SELECT views, likes, comments, shares, saves, update_count FROM posts WHERE id = ?
UpsertSelect(w) ==
    /\ pc[w] = "up_select"
    /\ LET id == UniqueId(loc[w].platform, loc[w].post_id)
       IN  loc' = [loc EXCEPT ![w].existing = IF id \in DOMAIN posts THEN posts[id] ELSE NoRow]
    /\ Goto(w, "up_write")
    /\ UNCHANGED <<now, posts, tagScores, writeLock, dbLock, calls, hist>>
    /\ UNCHANGED streamVars

\* the previous counters upsert_post writes: those its SELECT returned
\* (faulty variant: the previous counters are left as they were)
PrevOfExistingMut(existing) == existing.prev

PrevOfExisting(existing) == existing.cur

\* UPDATE ... COMMIT, or INSERT ... COMMIT, or ROLLBACK and raise
UpsertWrite(w) ==
    /\ pc[w] = "up_write"
    /\ LET l   == loc[w]
           id  == UniqueId(l.platform, l.post_id)
           key == PostKey(l.platform, l.post_id)
       IN  IF l.existing # NoRow
           THEN /\ posts' = IF id \in DOMAIN posts
                            THEN PutRow(posts, id,
                                        [UpdatedRow(posts[id], l.stats,
                                                    PrevOfExisting(l.existing), l.now)
                                           EXCEPT !.display = UpdateDisplay(@, l.display)])
                            ELSE posts
                /\ loc' = [loc EXCEPT ![w].ret = [is_new |-> FALSE,
                                                  prev_stats |-> PrevOfExisting(l.existing)],
                                      ![w].writes = @ + 1]
                /\ hist' = [hist EXCEPT ![key].done = Append(@, l.stats),
                                        ![key].shown = Append(@, l.display)]
           ELSE IF InsertConflicts(posts, l.platform, l.post_id)
           THEN /\ posts' = posts
                /\ loc' = [loc EXCEPT ![w].raised = TRUE]
                /\ hist' = [hist EXCEPT ![key].acq = SubSeq(@, 1, Len(@) - 1)]
           ELSE /\ posts' = PutRow(posts, id,
                                   [PostRow(l.platform, l.tag, l.post_id, l.stats, l.now)
                                      EXCEPT !.display = InsertDisplay(l.display)])
                /\ loc' = [loc EXCEPT ![w].ret = [is_new |-> TRUE, prev_stats |-> None],
                                      ![w].writes = @ + 1]
                /\ hist' = [hist EXCEPT ![key].done = Append(@, l.stats),
                                        ![key].shown = Append(@, l.display)]
    /\ writeLock' = None
    /\ dbLock' = None
    /\ Goto(w, "done")
    /\ UNCHANGED <<now, tagScores, calls>>
    /\ UNCHANGED streamVars

(* -------------------------- batch_upsert_posts ------------------------- *)
BatchCall(w, items) ==
    /\ CanCall(w)
    /\ IF items = <<>>
       THEN Call(w, "done", [IdleLoc EXCEPT !.op = "batch_upsert_posts",
                                            !.ret = [new_count |-> 0, updated_count |-> 0]])
       ELSE Call(w, "b_lock", [IdleLoc EXCEPT !.op = "batch_upsert_posts", !.items = items,
                                              !.now = now])
    /\ UNCHANGED <<now, posts, tagScores, writeLock, dbLock, hist>>
    /\ UNCHANGED streamVars

BatchBegin(w) ==
    /\ pc[w] = "b_lock"
    /\ CanBeginWrite(w)
    /\ writeLock' = w
    /\ dbLock' = w
    /\ loc' = [loc EXCEPT ![w].txn = posts, ![w].idx = 1]
    /\ Goto(w, "b_item")
    /\ UNCHANGED <<now, posts, tagScores, calls, hist>>
    /\ UNCHANGED streamVars

\* ROLLBACK: the table as it was before BEGIN IMMEDIATE, the transaction's writes dropped
\* (faulty variant: the transaction's writes stay)
AfterRollbackMut(P, txn) == txn

AfterRollback(P, txn) == P

\* one round of `for data in posts_data`, on the transaction's own view of posts
BatchItem(w) ==
    /\ pc[w] = "b_item"
    /\ loc[w].idx <= Len(loc[w].items)
    /\ LET l    == loc[w]
           data == l.items[l.idx]
           id   == UniqueId(data.platform, data.post_id)
           st   == CoerceStats(data.stats)
       IN  IF id \in DOMAIN l.txn
           THEN /\ loc' = [loc EXCEPT
                             ![w].txn = PutRow(l.txn, id, UpdatedRow(l.txn[id], st, l.txn[id].cur, l.now)),
                             ![w].updated_count = @ + 1,
                             ![w].idx = @ + 1]
                /\ Goto(w, "b_item")
                /\ UNCHANGED <<posts, writeLock, dbLock>>
           ELSE IF InsertConflicts(l.txn, data.platform, data.post_id)
           THEN \* ROLLBACK and raise
                /\ loc' = [loc EXCEPT ![w].raised = TRUE, ![w].txn = EmptyTable]
                /\ posts' = AfterRollback(posts, l.txn)
                /\ writeLock' = None
                /\ dbLock' = None
                /\ Goto(w, "done")
           ELSE /\ loc' = [loc EXCEPT
                             ![w].txn = PutRow(l.txn, id, PostRow(data.platform, data.tag,
                                                                 data.post_id, st, l.now)),
                             ![w].new_count = @ + 1,
                             ![w].idx = @ + 1]
                /\ Goto(w, "b_item")
                /\ UNCHANGED <<posts, writeLock, dbLock>>
    /\ UNCHANGED <<now, tagScores, calls, hist>>
    /\ UNCHANGED streamVars

\* the keys whose rows a committed transaction changed
TouchedKeys(P, Q) ==
    { k \in PostKeys : \E i \in DOMAIN Q :
        /\ PostKey(Q[i].platform, Q[i].post_id) = k
        /\ (i \notin DOMAIN P \/ P[i] # Q[i]) }

\* COMMIT
BatchCommit(w) ==
    /\ pc[w] = "b_item"
    /\ loc[w].idx > Len(loc[w].items)
    /\ posts' = loc[w].txn
    /\ hist' = [k \in PostKeys |-> IF k \in TouchedKeys(posts, loc[w].txn)
                                   THEN [hist[k] EXCEPT !.pure = FALSE] ELSE hist[k]]
    /\ loc' = [loc EXCEPT ![w].ret = [new_count |-> loc[w].new_count,
                                      updated_count |-> loc[w].updated_count],
                          ![w].txn = EmptyTable,
                          ![w].writes = @ + 1]
    /\ writeLock' = None
    /\ dbLock' = None
    /\ Goto(w, "done")
    /\ UNCHANGED <<now, tagScores, calls>>
    /\ UNCHANGED streamVars

(* ----------------------------- save_tag_score -------------------------- *)
SaveCall(w, platform, tag, agg, trend_score) ==
    /\ CanCall(w)
    /\ Call(w, "s_lock", [IdleLoc EXCEPT !.op = "save_tag_score", !.platform = platform,
                                         !.tag = tag, !.agg = agg, !.trend_score = trend_score,
                                         !.now = now])
    /\ UNCHANGED <<now, posts, tagScores, writeLock, dbLock, hist>>
    /\ UNCHANGED streamVars

SaveAcquire(w) ==
    /\ pc[w] = "s_lock"
    /\ CanLock(w)
    /\ writeLock' = w
    /\ Goto(w, "s_exec")
    /\ UNCHANGED <<now, posts, tagScores, dbLock, loc, calls, hist>>
    /\ UNCHANGED streamVars

\* INSERT INTO tag_scores ... ON CONFLICT(platform, tag) DO UPDATE SET ...
SaveExec(w) ==
    /\ pc[w] = "s_exec"
    /\ CanWriteStatement(w)
    /\ LET l == loc[w]
       IN  tagScores' = PutRow(tagScores, TagId(l.platform, l.tag),
                               TagRow(tagScores, l.platform, l.tag, l.agg, l.trend_score, l.now))
    /\ loc' = [loc EXCEPT ![w].writes = @ + 1]
    /\ writeLock' = None
    /\ Goto(w, "done")
    /\ UNCHANGED <<now, posts, dbLock, calls, hist>>
    /\ UNCHANGED streamVars

(* ---------------------------- cleanup_expired -------------------------- *)
CleanCall(w) ==
    /\ CanCall(w)
    /\ Call(w, "cl_pcount", [IdleLoc EXCEPT !.op = "cleanup_expired",
                                            !.cutoff = now - RETENTION_HOURS])
    /\ UNCHANGED <<now, posts, tagScores, writeLock, dbLock, hist>>
    /\ UNCHANGED streamVars

\* SELECT COUNT(*) FROM posts WHERE last_updated_at < ?
CleanPostsCount(w) ==
    /\ pc[w] = "cl_pcount"
    /\ loc' = [loc EXCEPT ![w].posts_count = Cardinality(Expired(posts, loc[w].cutoff))]
    /\ Goto(w, "cl_pdel")
    /\ UNCHANGED <<now, posts, tagScores, writeLock, dbLock, calls, hist>>
    /\ UNCHANGED streamVars

\* if posts_count > 0: DELETE FROM posts WHERE last_updated_at < ?
CleanPostsDelete(w) ==
    /\ pc[w] = "cl_pdel"
    /\ IF loc[w].posts_count > 0
       THEN /\ CanWriteStatement(w)
            /\ posts' = DropRows(posts, Expired(posts, loc[w].cutoff))
            /\ hist' = ResetHist(hist, posts')
            /\ loc' = [loc EXCEPT ![w].writes =
                          IF Expired(posts, loc[w].cutoff) # {} THEN @ + 1 ELSE @]
       ELSE UNCHANGED <<posts, hist, loc>>
    /\ Goto(w, "cl_tcount")
    /\ UNCHANGED <<now, tagScores, writeLock, dbLock, calls>>
    /\ UNCHANGED streamVars

\* SELECT COUNT(*) FROM tag_scores WHERE last_updated_at < ?
CleanTagsCount(w) ==
    /\ pc[w] = "cl_tcount"
    /\ loc' = [loc EXCEPT ![w].tags_count = Cardinality(Expired(tagScores, loc[w].cutoff))]
    /\ Goto(w, "cl_tdel")
    /\ UNCHANGED <<now, posts, tagScores, writeLock, dbLock, calls, hist>>
    /\ UNCHANGED streamVars

\* if tags_count > 0: DELETE FROM tag_scores WHERE last_updated_at < ?; then VACUUM
CleanTagsDelete(w) ==
    /\ pc[w] = "cl_tdel"
    /\ IF loc[w].tags_count > 0
       THEN /\ CanWriteStatement(w)
            /\ tagScores' = DropRows(tagScores, Expired(tagScores, loc[w].cutoff))
            /\ loc' = [loc EXCEPT
                         ![w].writes = IF Expired(tagScores, loc[w].cutoff) # {} THEN @ + 1 ELSE @,
                         ![w].ret = [vacuumed |-> loc[w].posts_count + loc[w].tags_count
                                                    >= VACUUM_THRESHOLD]]
       ELSE /\ tagScores' = tagScores
            /\ loc' = [loc EXCEPT
                         ![w].ret = [vacuumed |-> loc[w].posts_count + loc[w].tags_count
                                                    >= VACUUM_THRESHOLD]]
    /\ Goto(w, "done")
    /\ UNCHANGED <<now, posts, writeLock, dbLock, calls, hist>>
    /\ UNCHANGED streamVars

(* -------------------------------- clear_all ---------------------------- *)
ClearCall(w) ==
    /\ CanCall(w)
    /\ Call(w, "x_lock", [IdleLoc EXCEPT !.op = "clear_all"])
    /\ UNCHANGED <<now, posts, tagScores, writeLock, dbLock, hist>>
    /\ UNCHANGED streamVars

ClearAcquire(w) ==
    /\ pc[w] = "x_lock"
    /\ CanLock(w)
    /\ writeLock' = w
    /\ Goto(w, "x_posts")
    /\ UNCHANGED <<now, posts, tagScores, dbLock, loc, calls, hist>>
    /\ UNCHANGED streamVars

\* DELETE FROM posts
ClearPosts(w) ==
    /\ pc[w] = "x_posts"
    /\ CanWriteStatement(w)
    /\ posts' = EmptyTable
    /\ hist' = ResetHist(hist, posts')
    /\ loc' = [loc EXCEPT ![w].writes = IF DOMAIN posts # {} THEN @ + 1 ELSE @]
    /\ Goto(w, "x_tags")
    /\ UNCHANGED <<now, tagScores, writeLock, dbLock, calls>>
    /\ UNCHANGED streamVars

\* DELETE FROM tag_scores; VACUUM
ClearTags(w) ==
    /\ pc[w] = "x_tags"
    /\ CanWriteStatement(w)
    /\ tagScores' = EmptyTable
    /\ loc' = [loc EXCEPT ![w].writes = IF DOMAIN tagScores # {} THEN @ + 1 ELSE @,
                          ![w].ret = [vacuumed |-> TRUE]]
    /\ writeLock' = None
    /\ Goto(w, "done")
    /\ UNCHANGED <<now, posts, dbLock, calls, hist>>
    /\ UNCHANGED streamVars

(* --------------------------------- reads ------------------------------- *)
AggRead(w, platform, tag, current_batch_size) ==
    /\ CanCall(w)
    /\ pc' = [pc EXCEPT ![w] = "done"]
    /\ loc' = [loc EXCEPT ![w] = [IdleLoc EXCEPT
                  !.op = "get_tag_aggregated_stats", !.platform = platform, !.tag = tag,
                  !.idx = current_batch_size,
                  !.ret = GetTagAggregatedStats(posts, platform, tag, current_batch_size)]]
    /\ UNCHANGED <<now, posts, tagScores, writeLock, dbLock, calls, hist>>
    /\ UNCHANGED streamVars

(* ------------------------------ scheduling ----------------------------- *)
Return(w) ==
    /\ pc[w] = "done"
    /\ pc' = [pc EXCEPT ![w] = "idle"]
    /\ loc' = [loc EXCEPT ![w] = IdleLoc]
    /\ UNCHANGED <<now, posts, tagScores, writeLock, dbLock, calls, hist>>
    /\ UNCHANGED streamVars

Tick ==
    /\ now < MaxTime
    /\ \A w \in Workers : pc[w] = "idle"
    /\ now' = now + 1
    /\ UNCHANGED <<posts, tagScores, writeLock, dbLock, pc, loc, calls, hist>>
    /\ UNCHANGED streamVars

\* One caller, all inside one hour: upserts, batches, clears and aggregate reads over
\* every combination of platform spelling, tag, post and counters.
StoreNext ==
    \/ /\ calls < MaxCalls
       /\ \/ \E p \in PlatformInputs, t \in TagInputs, i \in PostIds, s \in StatsInputs :
               UpsertCall("w1", p, t, i, s)
          \/ \E items \in BatchInputs : BatchCall("w1", items)
          \/ ClearCall("w1")
    \/ \E p \in PlatformInputs, t \in TagInputs, b \in BatchSizeInputs : AggRead("w1", p, t, b)
    \/ UpsertBegin("w1")
    \/ UpsertSelect("w1")
    \/ UpsertWrite("w1")
    \/ BatchBegin("w1")
    \/ BatchItem("w1")
    \/ BatchCommit("w1")
    \/ ClearAcquire("w1")
    \/ ClearPosts("w1")
    \/ ClearTags("w1")
    \/ Return("w1")

\* One caller over several hours: upserts, tag scores saved from the aggregate just read,
\* cleanups and aggregate reads.
RetentionNext ==
    \/ /\ calls < MaxRetentionCalls
       /\ \/ \E t \in TagInputs, i \in PostIds :
               UpsertCall("w1", "TikTok", t, i, CHOOSE s \in StatsInputs : s.views = 10)
          \/ \E t \in TagInputs, sc \in ScoreInputs :
               SaveCall("w1", "TikTok", t,
                        GetTagAggregatedStats(posts, "TikTok", t, DEFAULT_BATCH_SIZE), sc)
          \/ CleanCall("w1")
    \/ \E t \in TagInputs : AggRead("w1", "TikTok", t, DEFAULT_BATCH_SIZE)
    \/ UpsertBegin("w1")
    \/ UpsertSelect("w1")
    \/ UpsertWrite("w1")
    \/ SaveAcquire("w1")
    \/ SaveExec("w1")
    \/ CleanPostsCount("w1")
    \/ CleanPostsDelete("w1")
    \/ CleanTagsCount("w1")
    \/ CleanTagsDelete("w1")
    \/ Return("w1")
    \/ Tick

(* ------------------------- AdaptiveTrendScorer ------------------------- *)
\* platform_str as callers pass it: the platforms of detect_platform's map and a name
\* that is not in it
PlatformStrInputs ==
    {"tiktok", " TikTok", "instagram", "youtube", "twitter", "x", "X", "reddit", "linkedin",
     "facebook"}

\* platform_str.lower().strip()
PlatformLower(platform_str) ==
    CASE platform_str = " TikTok" -> "tiktok"
      [] platform_str = "X" -> "x"
      [] OTHER -> platform_str

\* detect_platform: the Platform of the map, or Platform.UNKNOWN
\* (faulty variant: the name is looked up as given)
DetectPlatformMut(platform_str) ==
    CASE platform_str = "x" -> "twitter"
      [] platform_str \in {"tiktok", "instagram", "youtube", "twitter", "reddit", "linkedin"}
            -> platform_str
      [] OTHER -> "unknown"

DetectPlatform(platform_str) ==
    LET platform_lower == PlatformLower(platform_str)
    IN  CASE platform_lower = "x" -> "twitter"
          [] platform_lower \in {"tiktok", "instagram", "youtube", "twitter", "reddit",
                                 "linkedin"} -> platform_lower
          [] OTHER -> "unknown"

\* PLATFORM_CONFIGS: the raw field read for each metric (None: no field) and the
\* platform's metric weights in tenths; PlatformMetricMapping() for Platform.UNKNOWN
PlatformConfig(platform) ==
    CASE platform = "tiktok" ->
           [fields  |-> [views |-> "views", likes |-> "likes", comments |-> "comments",
                         shares |-> "shares", saves |-> "saves"],
            upvotes_field |-> None, score_field |-> None,
            weights |-> [views |-> 10, likes |-> 10, comments |-> 10, shares |-> 10,
                         saves |-> 10]]
      [] platform = "instagram" ->
           [fields  |-> [views |-> "views", likes |-> "likes", comments |-> "comments",
                         shares |-> "shares", saves |-> None],
            upvotes_field |-> None, score_field |-> None,
            weights |-> [views |-> 10, likes |-> 12, comments |-> 13, shares |-> 11,
                         saves |-> 0]]
      [] platform = "youtube" ->
           [fields  |-> [views |-> "views", likes |-> "likes", comments |-> "comments",
                         shares |-> None, saves |-> None],
            upvotes_field |-> None, score_field |-> None,
            weights |-> [views |-> 13, likes |-> 10, comments |-> 15, shares |-> 0,
                         saves |-> 0]]
      [] platform = "twitter" ->
           [fields  |-> [views |-> "views", likes |-> "likes", comments |-> "comments",
                         shares |-> "retweets", saves |-> "bookmarks"],
            upvotes_field |-> None, score_field |-> None,
            weights |-> [views |-> 8, likes |-> 10, comments |-> 12, shares |-> 15,
                         saves |-> 8]]
      [] platform = "reddit" ->
           [fields  |-> [views |-> None, likes |-> None, comments |-> "comments",
                         shares |-> None, saves |-> None],
            upvotes_field |-> "upvotes", score_field |-> "score",
            weights |-> [views |-> 0, likes |-> 0, comments |-> 20, shares |-> 0,
                         saves |-> 0]]
      [] platform = "linkedin" ->
           [fields  |-> [views |-> None, likes |-> None, comments |-> None,
                         shares |-> None, saves |-> None],
            upvotes_field |-> None, score_field |-> None,
            weights |-> [views |-> 0, likes |-> 0, comments |-> 0, shares |-> 0,
                         saves |-> 0]]
      [] OTHER ->
           [fields  |-> [views |-> None, likes |-> None, comments |-> None,
                         shares |-> None, saves |-> None],
            upvotes_field |-> None, score_field |-> None,
            weights |-> [views |-> 10, likes |-> 10, comments |-> 10, shares |-> 10,
                         saves |-> 10]]

\* VELOCITY_WEIGHTS, in hundredths
VELOCITY_WEIGHTS == [views |-> 45, likes |-> 25, comments |-> 15, shares |-> 10, saves |-> 5]

\* raw_stats.get(field, 0) for a field the mapping names and raw_stats holds, else 0
\* the keys of raw_stats whose value is None, and those whose value is a string that is
\* not a number (the record holds 0 in their place)
Nulls(raw) == IF "nulls" \in DOMAIN raw THEN raw.nulls ELSE {}

Texts(raw) == IF "texts" \in DOMAIN raw THEN raw.texts ELSE {}

\* float(raw_stats.get(field, 0) or 0) of a key raw_stats holds: None counts as 0
FloatOrZero(raw, field) == IF field \in Nulls(raw) THEN 0 ELSE raw[field]

RawGet(raw, field) ==
    IF field # None /\ field \in DOMAIN raw THEN FloatOrZero(raw, field) ELSE 0

\* extract_metrics: the five standard metrics of raw_stats under the platform's mapping
ExtractMetrics(raw, platform) ==
    LET config == PlatformConfig(platform)
        has(field) == field # None /\ field \in DOMAIN raw
    IN  [f \in Fields |->
           CASE f = "views" ->
                  IF has(config.fields.views) THEN FloatOrZero(raw, config.fields.views)
                  ELSE IF platform = "reddit" THEN 10 * RawGet(raw, config.score_field)
                  ELSE 0
             [] f = "likes" ->
                  IF has(config.fields.likes) THEN FloatOrZero(raw, config.fields.likes)
                  ELSE IF has(config.upvotes_field) THEN FloatOrZero(raw, config.upvotes_field)
                  ELSE RawGet(raw, config.score_field)
             [] OTHER -> RawGet(raw, config.fields[f])]

\* the keys of raw_stats that extract_metrics passes to float()
FieldsRead(raw, platform) ==
    LET config == PlatformConfig(platform)
        has(field) == field # None /\ field \in DOMAIN raw
    IN  {field \in DOMAIN raw :
           \/ field \in {config.fields[f] : f \in Fields} \ {None}
           \/ /\ field = config.score_field
              /\ \/ platform = "reddit" /\ ~has(config.fields.views)
                 \/ ~has(config.fields.likes) /\ ~has(config.upvotes_field)
           \/ field = config.upvotes_field /\ ~has(config.fields.likes)}

\* float() raises ValueError for a string that is not a number
ExtractRaises(raw, platform) == FieldsRead(raw, platform) \cap Texts(raw) # {}

Clamp(x, lo, hi) == IF x < lo THEN lo ELSE IF x > hi THEN hi ELSE x

\* safe_growth, in thousandths (faulty variant: no growth is ever measured)
SafeGrowthMut(curr, prev) == 0

SafeGrowth(curr, prev) == IF prev <= 0 THEN 0 ELSE ((curr - prev) * 1000) \div prev

\* the neutral velocity 0.5, in thousandths (faulty variant: 0.25, the value of no growth)
NeutralVelocityMut == (0 + 1000) \div 4

NeutralVelocity == 500

\* compute_velocity, in thousandths: 0.5 without a previous snapshot or without a valid
\* growth, else the weighted mean of the clamped growths mapped from [-1, 3] to [0, 1]
ComputeVelocity(metrics, prev_metrics, weights) ==
    IF prev_metrics = NoRow THEN NeutralVelocity
    ELSE LET valid == {f \in Fields :
                         weights[f] # 0 /\ (prev_metrics[f] > 0 \/ metrics[f] > 0)}
             growth == [f \in Fields |->
                          IF prev_metrics[f] > 0
                          THEN Clamp(SafeGrowth(metrics[f], prev_metrics[f]), -1000, 3000)
                          ELSE 2000]
             eff    == [f \in Fields |->
                          IF f \in valid THEN VELOCITY_WEIGHTS[f] * weights[f] ELSE 0]
             total_weight == eff["views"] + eff["likes"] + eff["comments"] + eff["shares"]
                             + eff["saves"]
             velocity_raw == eff["views"] * growth["views"] + eff["likes"] * growth["likes"]
                             + eff["comments"] * growth["comments"]
                             + eff["shares"] * growth["shares"]
                             + eff["saves"] * growth["saves"]
         IN  IF valid = {} \/ total_weight = 0 THEN NeutralVelocity
             ELSE Clamp((velocity_raw \div total_weight + 1000) \div 4, 0, 1000)

\* is_first_crawl: no previous raw stats, or views, likes and comments all 0 in them
IsFirstCrawl(prev_raw) ==
    \/ prev_raw = NoRow
    \/ \A k \in {"views", "likes", "comments"} :
          k \in DOMAIN prev_raw => (k \notin Nulls(prev_raw) \cup Texts(prev_raw) /\ prev_raw[k] = 0)

\* compute_trend_score: `base` is 0.20*H + 0.15*(0.30*posts_norm + 0.20*creators_norm)
\* + 0.15*F + 0.20*M - 0.25*R in thousandths, which the current counters, the post count
\* and the keyword decide; the freshness half of D and 0.30*V are added, the sum is
\* clamped to [0, 1] and trend_score = round(100 * score)
ComputeTrendScore(platform_str, raw, prev_raw, base, freshness_rate) ==
    LET platform       == DetectPlatform(platform_str)
        metrics        == ExtractMetrics(raw, platform)
        is_first_crawl == IsFirstCrawl(prev_raw)
        prev_metrics   == IF prev_raw = NoRow THEN NoRow
                          ELSE ExtractMetrics(prev_raw, platform)
        V              == ComputeVelocity(metrics, prev_metrics,
                                          PlatformConfig(platform).weights)
        freshness_norm == IF is_first_crawl THEN 500 ELSE freshness_rate
        score          == Clamp(base + (75 * freshness_norm) \div 1000 + (300 * V) \div 1000,
                                0, 1000)
    IN  [trend_score |-> RoundScaled(score, 1000, 100), V |-> V,
         is_first_crawl |-> is_first_crawl]

\* current counters: of a post with every counter but saves, and of one with saves only
CurrentInputs ==
    { [views |-> 2100, likes |-> 210, comments |-> 42, shares |-> 21, saves |-> 0],
      [views |-> 0, likes |-> 0, comments |-> 0, shares |-> 0, saves |-> 63] }

\* the previous counters from which `raw` has grown by 200%, and has fallen by 30%
Grown200(raw) == [k \in DOMAIN raw |-> raw[k] \div 3]

Declined30(raw) == [k \in DOMAIN raw |-> (raw[k] * 10) \div 7]

\* prev_raw_stats: None, the two above, or a snapshot of zeros
PrevInputs(raw) == {NoRow, Grown200(raw), Declined30(raw), [k \in DOMAIN raw |-> 0]}

\* the part of the score that does not depend on the previous snapshot, at the low and at
\* the high end of its range, in thousandths
BaseInputs == {-45, 600}

FreshnessInputs == {1000}

\* compute_adaptive_trend_score(keyword, platform_str, raw_stats, prev_raw_stats, posts,
\* freshness_rate)
ScoreCall(w, platform_str, raw, prev_raw, base, freshness_rate) ==
    /\ CanCall(w)
    /\ Call(w, "done", [IdleLoc EXCEPT
           !.op = "compute_trend_score", !.platform = platform_str, !.stats = raw,
           !.existing = prev_raw, !.base = base, !.freshness_rate = freshness_rate,
           !.ret = ComputeTrendScore(platform_str, raw, prev_raw, base, freshness_rate)])
    /\ UNCHANGED <<now, posts, tagScores, writeLock, dbLock, hist>>
    /\ UNCHANGED streamVars

\* Two callers scoring the same or different counters against every previous snapshot.
ScoreNext ==
    \/ /\ calls < MaxCalls
       /\ \E w \in Workers, p \in PlatformStrInputs, raw \in CurrentInputs, b \in BaseInputs,
             fr \in FreshnessInputs :
             \E prev \in PrevInputs(raw) : ScoreCall(w, p, raw, prev, b, fr)
    \/ \E w \in Workers : Return(w)

\* round(1000 * math.log1p(value)) for value = 1, ..., 64
Log1pSmall ==
    <<693, 1099, 1386, 1609, 1792, 1946, 2079, 2197,
       2303, 2398, 2485, 2565, 2639, 2708, 2773, 2833,
       2890, 2944, 2996, 3045, 3091, 3135, 3178, 3219,
       3258, 3296, 3332, 3367, 3401, 3434, 3466, 3497,
       3526, 3555, 3584, 3611, 3638, 3664, 3689, 3714,
       3738, 3761, 3784, 3807, 3829, 3850, 3871, 3892,
       3912, 3932, 3951, 3970, 3989, 4007, 4025, 4043,
       4060, 4078, 4094, 4111, 4127, 4143, 4159, 4174>>

\* round(1000 * math.log1p(value)) for the values the model feeds in
Log1p(value) ==
    CASE value \in 1..64 -> Log1pSmall[value]                    [] value = 210 -> 5352
      [] value = 1000 -> 6909      [] value = 2100 -> 7650       [] value = 6000 -> 8700
      [] value = 10000 -> 9210     [] value = 20000 -> 9904      [] value = 21000 -> 9952
      [] value = 100000 -> 11513   [] value = 1000000 -> 13816
      [] value = 2000000 -> 14509  [] value = 100000000 -> 18421

\* log_normalize, in thousandths
LogNormalize(value, max_value) ==
    IF value <= 0 THEN 0 ELSE (Log1p(value) * 1000) \div Log1p(max_value)

\* hotness_views_weight, hotness_engagement_weight, hotness_posts_weight, in hundredths
HotnessWeights(platform) ==
    CASE platform = "instagram" -> [views |-> 35, engagement |-> 45, posts |-> 20]
      [] platform = "youtube"   -> [views |-> 65, engagement |-> 20, posts |-> 15]
      [] platform = "twitter"   -> [views |-> 40, engagement |-> 40, posts |-> 20]
      [] platform = "reddit"    -> [views |-> 0, engagement |-> 70, posts |-> 30]
      [] platform = "linkedin"  -> [views |-> 0, engagement |-> 0, posts |-> 100]
      [] OTHER                  -> [views |-> 50, engagement |-> 30, posts |-> 20]

\* keyword as callers pass it: two keywords with a profile and one without
KeywordInputs == {"#AI Headshot", "arcane filter", "knitting"}

\* get_keyword_profile: DEFAULT_KEYWORD_PROFILES looked up by the lower-cased keyword
\* without "#", or the default profile; monetization and ip_risk in thousandths
KeywordProfile(keyword) ==
    CASE keyword = "#AI Headshot" ->
           [ai_feasibility |-> 5, monetization |-> 900, ip_risk |-> 100]
      [] keyword = "arcane filter" ->
           [ai_feasibility |-> 4, monetization |-> 700, ip_risk |-> 600]
      [] OTHER ->
           [ai_feasibility |-> 3, monetization |-> 500, ip_risk |-> 200]

\* clamp(x) with the default limits 0 and 1, in thousandths
\* (faulty variant: the value is returned as it is)
Clamp01Mut(x) == x

Clamp01(x) == Clamp(x, 0, 1000)

Min(a, b) == IF a < b THEN a ELSE b

\* compute_hotness
ComputeHotness(metrics, post_count, platform) ==
    LET hw == HotnessWeights(platform)
        views_norm == IF metrics.views > 0 THEN LogNormalize(metrics.views, 100000000) ELSE 0
        engagement ==
            IF platform = "reddit"
            THEN IF metrics.likes > 0
                 THEN IF metrics.comments > 0
                      THEN (600 * LogNormalize(metrics.likes, 100000)
                            + 400 * LogNormalize(metrics.comments, 10000)) \div 1000
                      ELSE LogNormalize(metrics.likes, 100000)
                 ELSE 0
            ELSE IF metrics.views > 0
            THEN 2 * Min(((metrics.likes + 2 * metrics.comments + 3 * metrics.shares) * 1000)
                           \div metrics.views, 500)
            ELSE IF metrics.likes > 0 THEN LogNormalize(metrics.likes, 1000000)
            ELSE 0
        posts_norm == IF post_count > 0 THEN LogNormalize(post_count, 10000) ELSE 0
    IN  IF platform = "linkedin"
        THEN Clamp01(((IF post_count > 0 THEN LogNormalize(post_count, 1000) ELSE 0) * 3) \div 10)
        ELSE Clamp01((hw.views * views_norm + hw.engagement * engagement
                      + hw.posts * posts_norm) \div 100)

\* compute_density: metrics never holds unique_creators, so creators_norm is half of
\* posts_norm
ComputeDensity(post_count, freshness_rate, is_first_crawl) ==
    LET posts_norm     == LogNormalize(post_count, 10000)
        creators_norm  == posts_norm \div 2
        freshness_norm == IF is_first_crawl THEN 500 ELSE freshness_rate
    IN  Clamp01((500 * freshness_norm + 300 * posts_norm + 200 * creators_norm) \div 1000)

\* compute_feasibility
ComputeFeasibility(keyword) == Clamp01((KeywordProfile(keyword).ai_feasibility - 1) * 250)

\* compute_monetization
ComputeMonetization(keyword, metrics, platform) ==
    LET base == KeywordProfile(keyword).monetization
        views == metrics.views
        likes == metrics.likes
    IN  CASE platform = "linkedin" -> Clamp01(base \div 2)
          [] platform = "reddit" ->
               Clamp01((base * 7) \div 10
                       + (IF likes >= 10000 THEN 100 ELSE IF likes >= 5000 THEN 50 ELSE 0))
          [] platform = "instagram" ->
               Clamp01((base * 11) \div 10
                       + (IF views >= 10000000 THEN 100 ELSE IF views >= 1000000 THEN 50 ELSE 0))
          [] platform = "twitter" ->
               Clamp01((base * 9) \div 10
                       + (IF views >= 10000000 THEN 100 ELSE IF views >= 1000000 THEN 50 ELSE 0))
          [] OTHER ->
               Clamp01(base
                       + (IF views >= 50000000 THEN 100 ELSE IF views >= 10000000 THEN 50 ELSE 0))

\* compute_risk
ComputeRisk(keyword, metrics, post_count, platform) ==
    LET ip_risk == KeywordProfile(keyword).ip_risk
        views == metrics.views
        likes == metrics.likes
        competition_risk ==
            CASE platform = "linkedin" -> 100
              [] platform = "reddit" ->
                   IF likes > 10000 THEN 600 ELSE IF likes > 5000 THEN 400
                   ELSE IF likes > 1000 THEN 200 ELSE 0
              [] OTHER ->
                   IF post_count > 5000 /\ views > 50000000 THEN 800
                   ELSE IF post_count > 1000 /\ views > 10000000 THEN 500
                   ELSE IF post_count > 100 THEN 300 ELSE 0
    IN  Clamp01((600 * ip_risk + 400 * competition_risk) \div 1000)

\* determine_lifecycle (faulty variant: the flash rule is tried before the second
\* sustained rule)
DetermineLifecycleMut(V, H, D) ==
    IF V >= 800 THEN "rising"
    ELSE IF V <= 200 THEN "declining"
    ELSE IF H >= 700 /\ D >= 600 THEN "evergreen"
    ELSE IF V >= 700 THEN "flash"
    ELSE "sustained"

DetermineLifecycle(V, H, D) ==
    IF V >= 800 THEN "rising"
    ELSE IF V <= 200 THEN "declining"
    ELSE IF H >= 700 /\ D >= 600 THEN "evergreen"
    ELSE IF V >= 600 /\ H >= 600 THEN "sustained"
    ELSE IF V >= 700 THEN "flash"
    ELSE "sustained"

\* determine_priority (faulty variant: P2 does not look at F)
DeterminePriorityMut(trend_score, M, F) ==
    IF trend_score >= 85 /\ M >= 850 /\ F >= 800 THEN "P0"
    ELSE IF trend_score >= 75 /\ M >= 700 /\ F >= 600 THEN "P1"
    ELSE IF trend_score >= 60 /\ M >= 500 THEN "P2"
    ELSE "P3"

DeterminePriority(trend_score, M, F) ==
    IF trend_score >= 85 /\ M >= 850 /\ F >= 800 THEN "P0"
    ELSE IF trend_score >= 75 /\ M >= 700 /\ F >= 600 THEN "P1"
    ELSE IF trend_score >= 60 /\ M >= 500 /\ F >= 500 THEN "P2"
    ELSE "P3"

\* agent_ready = trend_score >= 60 and F >= 0.5
AgentReady(trend_score, F) == trend_score >= 60 /\ F >= 500

\* the tail of compute_trend_score: lifecycle, priority and agent_ready of the dimensions
Classify(trend_score, H, V, D, F, M, R) ==
    [trend_score |-> trend_score, H |-> H, V |-> V, D |-> D, F |-> F, M |-> M, R |-> R,
     lifecycle |-> DetermineLifecycle(V, H, D),
     priority |-> DeterminePriority(trend_score, M, F),
     agent_ready |-> AgentReady(trend_score, F)]

\* WEIGHTS["H"] * H + ... - WEIGHTS["R"] * R, in millionths
WeightedSum(H, V, D, F, M, R) == 200 * H + 300 * V + 150 * D + 150 * F + 200 * M - 250 * R

\* compute_trend_score in full: the six dimensions, the clamped weighted sum and the
\* classification, together with the extracted counters
ComputeAdaptiveTrendScore(keyword, platform_str, raw, prev_raw, post_count, freshness_rate) ==
    LET platform       == DetectPlatform(platform_str)
        metrics        == ExtractMetrics(raw, platform)
        is_first_crawl == IsFirstCrawl(prev_raw)
        prev_metrics   == IF prev_raw = NoRow THEN NoRow
                          ELSE ExtractMetrics(prev_raw, platform)
        H == ComputeHotness(metrics, post_count, platform)
        V == ComputeVelocity(metrics, prev_metrics, PlatformConfig(platform).weights)
        D == ComputeDensity(post_count, freshness_rate, is_first_crawl)
        F == ComputeFeasibility(keyword)
        M == ComputeMonetization(keyword, metrics, platform)
        R == ComputeRisk(keyword, metrics, post_count, platform)
        score_0_1 == Clamp(WeightedSum(H, V, D, F, M, R), 0, 1000000)
        result == Classify(RoundScaled(score_0_1, 1000000, 100), H, V, D, F, M, R)
    IN  [c \in DOMAIN result \cup {"platform_type", "raw_metrics"} |->
           CASE c = "platform_type" -> platform
             [] c = "raw_metrics" -> metrics
             [] OTHER -> result[c]]

\* extract_metrics raises for raw_stats or for prev_raw_stats
ScoreRaises(platform_str, raw, prev_raw) ==
    \/ ExtractRaises(raw, DetectPlatform(platform_str))
    \/ prev_raw # NoRow /\ ExtractRaises(prev_raw, DetectPlatform(platform_str))

\* raw_stats: complete, very large, with None values, with a value that is not a number,
\* with missing keys, and as Reddit reports them
RawInputs ==
    { [views |-> 2100, likes |-> 210, comments |-> 42, shares |-> 21, saves |-> 0],
      [views |-> 2000000, likes |-> 6000, comments |-> 42, shares |-> 21, saves |-> 0],
      [views |-> 0, likes |-> 210, comments |-> 0, shares |-> 21, saves |-> 0,
       nulls |-> {"views", "comments"}],
      [views |-> 0, likes |-> 210, comments |-> 42, shares |-> 21, saves |-> 0,
       texts |-> {"views"}],
      [likes |-> 210],
      [upvotes |-> 6000, score |-> 2100, comments |-> 42] }

\* prev_raw_stats: None, an earlier snapshot, and one with a value that is not a number
PrevRawInputs ==
    { NoRow,
      [views |-> 1000, likes |-> 210, comments |-> 42, shares |-> 0, saves |-> 0],
      [views |-> 1000, likes |-> 0, comments |-> 42, texts |-> {"likes"}] }

PostsInputs == {0, 50, 20000}

\* freshness_rate in thousandths: 0, 1 and a value outside [0, 1]
FreshnessRateInputs == {0, 1000, 7000}

\* compute_adaptive_trend_score(keyword, platform_str, raw_stats, prev_raw_stats, posts,
\* freshness_rate): the result, or the exception of extract_metrics
TrendCall(w, keyword, platform_str, raw, prev_raw, post_count, freshness_rate) ==
    /\ CanCall(w)
    /\ Call(w, "done", [IdleLoc EXCEPT
           !.op = "compute_adaptive_trend_score", !.tag = keyword, !.platform = platform_str,
           !.stats = raw, !.existing = prev_raw, !.posts_count = post_count,
           !.freshness_rate = freshness_rate,
           !.raised = ScoreRaises(platform_str, raw, prev_raw),
           !.ret = IF ScoreRaises(platform_str, raw, prev_raw) THEN None
                   ELSE ComputeAdaptiveTrendScore(keyword, platform_str, raw, prev_raw, post_count,
                                                  freshness_rate)])
    /\ UNCHANGED <<now, posts, tagScores, writeLock, dbLock, hist>>
    /\ UNCHANGED streamVars

\* V, H and D in thousandths, on and next to the thresholds of determine_lifecycle
VelocityInputs == {0, 200, 201, 599, 600, 699, 700, 799, 800, 1000}

HotnessInputs == {0, 599, 600, 699, 700, 1000}

DensityInputs == {0, 599, 600, 1000}

\* trend_score, M and F on and next to the thresholds of determine_priority; F is
\* (ai_feasibility - 1) / 4
TrendScoreInputs == {0, 59, 60, 74, 75, 84, 85, 100}

MonetizationInputs == {0, 499, 500, 699, 700, 849, 850, 1000}

FeasibilityInputs == {0, 250, 500, 750, 1000}

\* scorer.determine_lifecycle(V, H, D)
LifecycleCall(w, V, H, D) ==
    /\ CanCall(w)
    /\ Call(w, "done", [IdleLoc EXCEPT
           !.op = "determine_lifecycle", !.dims = [@ EXCEPT !.V = V, !.H = H, !.D = D],
           !.ret = DetermineLifecycle(V, H, D)])
    /\ UNCHANGED <<now, posts, tagScores, writeLock, dbLock, hist>>
    /\ UNCHANGED streamVars

\* scorer.determine_priority(trend_score, M, F)
PriorityCall(w, trend_score, M, F) ==
    /\ CanCall(w)
    /\ Call(w, "done", [IdleLoc EXCEPT
           !.op = "determine_priority", !.trend_score = trend_score,
           !.dims = [@ EXCEPT !.M = M, !.F = F],
           !.ret = DeterminePriority(trend_score, M, F)])
    /\ UNCHANGED <<now, posts, tagScores, writeLock, dbLock, hist>>
    /\ UNCHANGED streamVars

\* One caller classifying dimensions around every threshold, and scoring.
ClassNext ==
    \/ /\ calls < MaxCalls
       /\ \/ \E V \in VelocityInputs, H \in HotnessInputs, D \in DensityInputs :
                LifecycleCall("w1", V, H, D)
          \/ \E s \in TrendScoreInputs, M \in MonetizationInputs, F \in FeasibilityInputs :
                PriorityCall("w1", s, M, F)
          \/ \E k \in KeywordInputs, p \in {"tiktok", "instagram"}, raw \in RawInputs,
                prev \in PrevRawInputs, fr \in FreshnessRateInputs :
                TrendCall("w1", k, p, raw, prev, 50, fr)
    \/ Return("w1")

\* One caller scoring every kind of raw_stats on every platform.
TrendNext ==
    \/ /\ calls < MaxCalls
       /\ \E k \in KeywordInputs, p \in PlatformStrInputs, raw \in RawInputs,
             prev \in PrevRawInputs, n \in PostsInputs, fr \in FreshnessRateInputs :
             TrendCall("w1", k, p, raw, prev, n, fr)
    \/ Return("w1")

\* One caller upserting two posts with every kind of display arguments.
DisplayNext ==
    \/ /\ calls < MaxCalls
       /\ \E i \in PostIds, d \in DisplayInputs :
             UpsertCallWith("w1", "tiktok", "ai", i, CHOOSE s \in StatsInputs : s.views = 10, d)
    \/ UpsertBegin("w1")
    \/ UpsertSelect("w1")
    \/ UpsertWrite("w1")
    \/ Return("w1")

\* One caller saving tag scores over several hours, under every spelling of platform and
\* tag.
TagNext ==
    \/ /\ calls < MaxCalls
       /\ \E p \in PlatformInputs, t \in SaveTagInputs, a \in AggInputs, sc \in TagScoreInputs :
             SaveCall("w1", p, t, a, sc)
    \/ SaveAcquire("w1")
    \/ SaveExec("w1")
    \/ Return("w1")
    \/ Tick

\* Two callers at once on one post and one tag.
ConcNext ==
    \/ \E w \in Workers :
         \/ /\ calls < MaxConcCalls
            /\ \/ \E s \in StatsInputs : UpsertCall(w, "tiktok", "ai", "p1", s)
               \/ \E items \in SeqsUpTo({x \in BatchItemInputs : x.post_id = "p1"}, 1) :
                    BatchCall(w, items)
               \/ \E sc \in ScoreInputs : SaveCall(w, "tiktok", "ai", EmptyAgg, sc)
               \/ CleanCall(w)
               \/ ClearCall(w)
         \/ UpsertBegin(w)
         \/ UpsertSelect(w)
         \/ UpsertWrite(w)
         \/ BatchBegin(w)
         \/ BatchItem(w)
         \/ BatchCommit(w)
         \/ SaveAcquire(w)
         \/ SaveExec(w)
         \/ CleanPostsCount(w)
         \/ CleanPostsDelete(w)
         \/ CleanTagsCount(w)
         \/ CleanTagsDelete(w)
         \/ ClearAcquire(w)
         \/ ClearPosts(w)
         \/ ClearTags(w)
         \/ Return(w)
    \/ Tick

(* --------------------- ingestion of one market event ------------------- *)
\* the hashtag of an event after `if not hashtag.startswith("#"): hashtag = f"#{hashtag}"`
HashtagInputs == {"#ai", "#Art"}

\* the step of the persistence block at which an error of the environment
\* (sqlite3.OperationalError and the like) is raised, if any
FailInputs == {"none", "upsert_post", "get_tag_aggregated_stats", "save_tag_score"}

\* upsert_post as one function of the table: the table it leaves, whether it raised
UpsertPost(P, platform, tag, post_id, stats, t) ==
    LET id == UniqueId(platform, post_id)
    IN  IF id \in DOMAIN P
        THEN [posts |-> PutRow(P, id, UpdatedRow(P[id], stats, PrevOfExisting(P[id]), t)),
              raised |-> FALSE, is_new |-> FALSE]
        ELSE IF InsertConflicts(P, platform, post_id)
        THEN [posts |-> P, raised |-> TRUE, is_new |-> FALSE]
        ELSE [posts |-> PutRow(P, id, PostRow(platform, tag, post_id, stats, t)),
              raised |-> FALSE, is_new |-> TRUE]

\* upsert_post applied to the elements of posts_data one by one in order, until one raises
RECURSIVE SeqUpserts(_, _, _)
SeqUpserts(P, items, t) ==
    IF items = <<>> THEN [posts |-> P, raised |-> FALSE]
    ELSE LET data == Head(items)
             r    == UpsertPost(P, data.platform, data.tag, data.post_id,
                                CoerceStats(data.stats), t)
         IN  IF r.raised THEN [posts |-> P, raised |-> TRUE]
             ELSE SeqUpserts(r.posts, Tail(items), t)

\* posts_data elements for one post, with both spellings of the platform and both tags
MixedItemInputs ==
    { [platform |-> p, tag |-> t, post_id |-> "p1",
       stats |-> CHOOSE s \in StatsInputs : s.views = 20] :
         p \in PlatformInputs, t \in TagInputs }

MixedBatchInputs == SeqsUpTo(MixedItemInputs, MaxBatchLen)

\* One caller upserting posts singly and in batches, under both spellings of the platform
\* and both tags.
BatchNext ==
    \/ /\ calls < MaxCalls
       /\ \/ \E p \in PlatformInputs, t \in TagInputs, i \in PostIds :
               UpsertCall("w1", p, t, i, CHOOSE s \in StatsInputs : s.views = 10)
          \/ \E items \in MixedBatchInputs : BatchCall("w1", items)
    \/ UpsertBegin("w1")
    \/ UpsertSelect("w1")
    \/ UpsertWrite("w1")
    \/ BatchBegin("w1")
    \/ BatchItem("w1")
    \/ BatchCommit("w1")
    \/ Return("w1")

\* _calculate_vks_from_market_data, `try:` block of the smart store: upsert_post, then
\* get_tag_aggregated_stats, then the aggregated score, then save_tag_score, each committed
\* on its own; `except Exception` logs whatever one of them raises
SmartStore(P, T, H, platform, hashtag, post_id, stats, trend_score, fail, t) ==
    LET up      == UpsertPost(P, platform, LStripHash(hashtag), post_id, CoerceStats(stats), t)
        failed1 == fail = "upsert_post" \/ up.raised
        P1      == IF failed1 THEN P ELSE up.posts
        failed2 == failed1 \/ fail = "get_tag_aggregated_stats"
        agg     == GetTagAggregatedStats(P1, platform, hashtag, DEFAULT_BATCH_SIZE)
        failed3 == failed2 \/ fail = "save_tag_score"
        key     == PostKey(platform, post_id)
    IN  [posts     |-> P1,
         tagScores |-> IF failed3 THEN T
                       ELSE PutRow(T, TagId(platform, hashtag),
                                   TagRow(T, platform, hashtag, agg, trend_score, t)),
         hist      |-> IF failed1 THEN H
                       ELSE [H EXCEPT ![key].done = Append(@, CoerceStats(stats)),
                                      ![key].acq = Append(@, CoerceStats(stats))],
         is_new |-> up.is_new, stored |-> ~failed1, saved |-> ~failed3]

\* one market event handled by _calculate_vks_from_market_data
IngestEvent(w, platform, hashtag, post_id, stats, trend_score, fail) ==
    /\ CanCall(w)
    /\ CanBeginWrite(w)
    /\ LET r == SmartStore(posts, tagScores, hist, platform, hashtag, post_id, stats,
                           trend_score, fail, now)
       IN  /\ posts' = r.posts
           /\ tagScores' = r.tagScores
           /\ hist' = r.hist
           /\ Call(w, "done", [IdleLoc EXCEPT
                  !.op = "ingest", !.platform = platform, !.tag = hashtag,
                  !.post_id = post_id, !.stats = CoerceStats(stats), !.now = now,
                  !.raised = ~r.saved,
                  !.writes = (IF r.stored THEN 1 ELSE 0) + (IF r.saved THEN 1 ELSE 0),
                  !.ret = [is_new |-> r.is_new, stored |-> r.stored, saved |-> r.saved]])
    /\ UNCHANGED <<now, writeLock, dbLock>>
    /\ UNCHANGED streamVars

\* prev_raw_stats of the aggregated score: the previous sums only if their views are
\* positive, else None (faulty variant: the previous sums always)
PrevRawStatsMut(agg) == agg.previous

PrevRawStats(agg) == IF agg.previous.views > 0 THEN agg.previous ELSE NoRow

\* compute_adaptive_trend_score on the aggregate of the event's tag
AggregatedScore(agg, platform, hashtag) ==
    ComputeAdaptiveTrendScore(LStripHash(hashtag), platform, agg.current, PrevRawStats(agg),
                              agg.post_count, agg.freshness_milli)

\* the row of save_tag_score with the dimension V of its `dimensions` argument
WithVelocity(row, V) ==
    [c \in DOMAIN row \cup {"V"} |-> IF c = "V" THEN V ELSE row[c]]

\* the platforms of the scored events
ScoredPlatformInputs == {"reddit", "tiktok"}

\* the counters of the scored events: two Reddit events, which report comments only, and
\* two events with views
ScoredStatsInputs ==
    { [views |-> 0, likes |-> 0, comments |-> 3, shares |-> 0, saves |-> 0,
       nulls |-> {"views", "likes", "shares", "saves"}],
      [views |-> 0, likes |-> 0, comments |-> 12, shares |-> 0, saves |-> 0,
       nulls |-> {"views", "likes", "shares", "saves"}] } \cup StatsInputs

\* one market event handled by _calculate_vks_from_market_data when the store does not
\* fail: upsert_post, get_tag_aggregated_stats, the aggregated score, save_tag_score, and
\* the result with the aggregated score that is broadcast as vks_update
IngestScored(w, platform, hashtag, post_id, stats) ==
    /\ CanCall(w)
    /\ CanBeginWrite(w)
    /\ LET up  == UpsertPost(posts, platform, LStripHash(hashtag), post_id,
                             CoerceStats(stats), now)
           agg == GetTagAggregatedStats(up.posts, platform, hashtag, DEFAULT_BATCH_SIZE)
           aggregated_score == AggregatedScore(agg, platform, hashtag)
       IN  /\ ~up.raised
           /\ posts' = up.posts
           /\ tagScores' =
                 PutRow(tagScores, TagId(platform, hashtag),
                        WithVelocity(TagRow(tagScores, platform, hashtag, agg,
                                            aggregated_score.trend_score, now),
                                     aggregated_score.V))
           /\ Call(w, "done", [IdleLoc EXCEPT
                  !.op = "ingest_scored", !.platform = platform, !.tag = hashtag,
                  !.post_id = post_id, !.stats = CoerceStats(stats), !.now = now,
                  !.agg = agg, !.existing = PrevRawStats(agg), !.writes = 2,
                  !.ret = aggregated_score])
    /\ UNCHANGED <<now, writeLock, dbLock, hist>>
    /\ UNCHANGED streamVars

\* One caller handling market events of two platforms, with and without views.
ScoredNext ==
    \/ /\ calls < MaxCalls
       /\ \E p \in ScoredPlatformInputs, i \in PostIds, s \in ScoredStatsInputs :
             IngestScored("w1", p, "#ai", i, s)
    \/ Return("w1")

\* One caller: market events, batch upserts and cleanups over several hours.
IngestNext ==
    \/ /\ calls < MaxIngestCalls
       /\ \/ \E p \in PlatformInputs, h \in HashtagInputs, i \in PostIds, sc \in ScoreInputs,
               f \in FailInputs :
               IngestEvent("w1", p, h, i, CHOOSE s \in StatsInputs : s.views = 10, sc, f)
          \/ \E items \in SeqsUpTo(BatchItemInputs, 1) : BatchCall("w1", items)
          \/ CleanCall("w1")
    \/ BatchBegin("w1")
    \/ BatchItem("w1")
    \/ BatchCommit("w1")
    \/ CleanPostsCount("w1")
    \/ CleanPostsDelete("w1")
    \/ CleanTagsCount("w1")
    \/ CleanTagsDelete("w1")
    \/ Return("w1")
    \/ Tick

(* ----------------------------- StreamManager --------------------------- *)
ClientIds == {"c1", "c2"}

Topics == {"vks-scores", "market-stream"}

\* the `topics` argument of register_client; {} also stands for None
TopicsInputs == SUBSET Topics

\* topics or {"vks-scores", "market-stream"}
TopicsOrDefault(topics) == IF topics = {} THEN Topics ELSE topics

\* (event_type, topic) of the calls of broadcast: the heartbeat loop, the Kafka consumer
\* loop on vks-scores, on market-stream and on any other topic
BroadcastInputs ==
    { [event |-> "heartbeat",    topic |-> None],
      [event |-> "vks_update",   topic |-> "vks-scores"],
      [event |-> "trend_update", topic |-> "market-stream"],
      [event |-> "message",      topic |-> "other"] }

\* outcome of a broadcast: whether it raised, and the clients it skipped for their topics,
\* enqueued on, and dropped for (the "Queue full" warnings)
NoBroadcast ==
    [event |-> None, topic |-> None, raised |-> FALSE, skipped |-> {}, delivered |-> {},
     dropped |-> {}]

StreamInit ==
    /\ clientOrder = <<>>
    /\ queues = EmptyTable
    /\ clientInfo = EmptyTable
    /\ bcast = NoBroadcast
    /\ nBroadcasts = 0

RemoveFromSeq(q, x) == SelectSeq(q, LAMBDA y : y # x)

\* self._clients[client_id] = Queue(maxsize=500); self._client_info[client_id] = SSEClient(...)
RegisterClient(client_id, topics) ==
    /\ clientOrder' = IF client_id \in DOMAIN queues THEN clientOrder
                      ELSE Append(clientOrder, client_id)
    /\ queues' = PutRow(queues, client_id, <<>>)
    /\ clientInfo' = PutRow(clientInfo, client_id, [topics |-> TopicsOrDefault(topics)])
    /\ UNCHANGED <<bcast, nBroadcasts>>
    /\ UNCHANGED lifeVars
    /\ UNCHANGED storeVars

\* del self._clients[client_id]; del self._client_info[client_id]
\* (faulty variant: the entry stays)
DelClientMut(T, client_id) == T

DelClient(T, client_id) == DropRows(T, {client_id})

UnregisterClient(client_id) ==
    /\ IF client_id \in DOMAIN queues
       THEN /\ clientOrder' = RemoveFromSeq(clientOrder, client_id)
            /\ queues' = DelClient(queues, client_id)
            /\ clientInfo' = DelClient(clientInfo, client_id)
       ELSE UNCHANGED <<clientOrder, queues, clientInfo>>
    /\ UNCHANGED <<bcast, nBroadcasts>>
    /\ UNCHANGED lifeVars
    /\ UNCHANGED storeVars

\* `if topic:` ... `if client_info and topic not in client_info.topics: continue`
\* (faulty variant: the topic is not looked at)
SkipsClientMut(topic, info, client_id) == FALSE

SkipsClient(topic, info, client_id) ==
    /\ topic # None
    /\ client_id \in DOMAIN info
    /\ topic \notin info[client_id].topics

\* queue.put_nowait(message): queue.Full when the queue holds maxsize messages
PutNowait(q, message) ==
    IF Len(q) >= QueueMaxSize
    THEN [queue |-> q, full |-> TRUE]
    ELSE [queue |-> Append(q, message), full |-> FALSE]

\* `except Exception:` logs a warning; the exception does not leave the loop
\* (faulty variant: queue.Full leaves broadcast)
PropagatesMut(full) == full

Propagates(full) == FALSE

\* for client_id, queue in self._clients.items(): ...
RECURSIVE BroadcastLoop(_, _, _, _, _)
BroadcastLoop(order, Q, info, message, out) ==
    IF order = <<>> THEN [out EXCEPT !.queues = Q]
    ELSE LET client_id == Head(order)
         IN  IF SkipsClient(message.topic, info, client_id)
             THEN BroadcastLoop(Tail(order), Q, info, message,
                                [out EXCEPT !.skipped = @ \cup {client_id}])
             ELSE LET put == PutNowait(Q[client_id], message)
                  IN  IF put.full /\ Propagates(put.full)
                      THEN [out EXCEPT !.queues = Q, !.raised = TRUE]
                      ELSE BroadcastLoop(Tail(order), [Q EXCEPT ![client_id] = put.queue], info,
                                         message,
                                         IF put.full
                                         THEN [out EXCEPT !.dropped = @ \cup {client_id}]
                                         ELSE [out EXCEPT !.delivered = @ \cup {client_id}])

\* broadcast(event_type, data, topic); the message carries the topic it was broadcast with
Broadcast(event_type, topic) ==
    /\ nBroadcasts < MaxBroadcasts
    /\ LET message == [event |-> event_type, topic |-> topic]
           out == BroadcastLoop(clientOrder, queues, clientInfo, message,
                                [queues |-> queues, raised |-> FALSE, skipped |-> {},
                                 delivered |-> {}, dropped |-> {}])
       IN  /\ queues' = out.queues
           /\ bcast' = [event |-> event_type, topic |-> topic, raised |-> out.raised,
                        skipped |-> out.skipped, delivered |-> out.delivered,
                        dropped |-> out.dropped]
    /\ nBroadcasts' = nBroadcasts + 1
    /\ UNCHANGED <<clientOrder, clientInfo>>
    /\ UNCHANGED lifeVars
    /\ UNCHANGED storeVars

\* sse_event_generator: message = queue.get_nowait(), or Empty and sleep
GetNowait(client_id) ==
    /\ client_id \in DOMAIN queues
    /\ queues' = IF queues[client_id] = <<>> THEN queues
                 ELSE [queues EXCEPT ![client_id] = Tail(@)]
    /\ UNCHANGED <<clientOrder, clientInfo, bcast, nBroadcasts>>
    /\ UNCHANGED lifeVars
    /\ UNCHANGED storeVars

StreamNext ==
    \/ \E c \in ClientIds, t \in TopicsInputs : RegisterClient(c, t)
    \/ \E c \in ClientIds : UnregisterClient(c)
    \/ \E b \in BroadcastInputs : Broadcast(b.event, b.topic)
    \/ \E c \in ClientIds : GetNowait(c)

(* ------------------- StreamManager: start, stop, tasks ----------------- *)
\* the `topics` argument of sse_event_generator: None from /stream/all's default, or a set
LifeTopicsInputs == {{}, {"vks-scores"}}

\* what one poll of the Kafka consumer brings: nothing, a message carrying an error, a
\* message on vks-scores, on market-stream (without and with social data), on another
\* topic, or a market-stream message whose JSON is not an object (its handling raises)
PollInputs == {"none", "error", "vks", "market", "market_social", "market_wrapped",
               "market_raw", "market_bytes", "other", "exception"}

\* the market-stream messages whose value decodes to text: a JSON object without social
\* fields, one with them, one wrapped by the middleware with the social event under
\* 'data', and text that is not JSON; "market_bytes" is a value that is not UTF-8
MarketInputs == {"market", "market_social", "market_wrapped", "market_raw"}

\* the polls whose handling raises inside the loop's try: msg.value().decode("utf-8") on
\* bytes that are not UTF-8, or a JSON value that is not an object
Raises(outcome) == outcome \in {"exception", "market_bytes"}

\* raw_data: json.loads(value), or {"raw": value} on json.JSONDecodeError (faulty
\* variant: text that is not JSON is passed on as if it were a parsed event)
RawDataMut(outcome) ==
    CASE outcome = "market_wrapped" -> "envelope"
      [] outcome = "market_social"  -> "social_event"
      [] OTHER                      -> "event"

RawData(outcome) ==
    CASE outcome = "market_raw"     -> "raw"
      [] outcome = "market_wrapped" -> "envelope"
      [] outcome = "market_social"  -> "social_event"
      [] OTHER                      -> "event"

\* actual_data: raw_data['data'] when raw_data has a dict under 'data', else raw_data
\* (faulty variant: the envelope is passed on as it came)
ActualDataMut(raw_data) == raw_data

ActualData(raw_data) == IF raw_data = "envelope" THEN "social_event" ELSE raw_data

\* has_social_data: type == "social_post", or a platform, hashtag or tag field
HasSocialData(actual_data) == actual_data = "social_event"

\* what _calculate_vks_from_market_data returns: `result` with the single-post score,
\* updated with the tag's aggregated score once save_tag_score has returned (faulty
\* variant: the aggregated score whatever the store did)
VksDataMut(saved) == "aggregated_score"

VksData(saved) == IF saved THEN "aggregated_score" ELSE "post_score"

LifeInit ==
    /\ running = FALSE
    /\ tasks = <<>>
    /\ consumerTask = 0
    /\ heartbeatTask = 0
    /\ kafkaConsumer = 0
    /\ closedConsumers = {}
    /\ stopCoro = [pc |-> "idle", task |-> 0]
    /\ conns = <<>>
    /\ queueOf = EmptyTable

\* asyncio.create_task(...): the task has not run yet; `caught` tells whether its loop
\* has logged an exception in `except Exception`
Task(kind) ==
    [kind |-> kind, state |-> "created", cancel |-> FALSE, caught |-> FALSE,
     effects |-> <<>>]

\* start(): `if self._running: return`, else the flag and the two tasks
StartManager ==
    IF running
    THEN [running |-> TRUE, tasks |-> tasks, consumerTask |-> consumerTask,
          heartbeatTask |-> heartbeatTask]
    ELSE [running |-> TRUE, tasks |-> tasks \o <<Task("consumer"), Task("heartbeat")>>,
          consumerTask |-> Len(tasks) + 1, heartbeatTask |-> Len(tasks) + 2]

CanStart == running \/ Len(tasks) + 2 <= MaxTasks

\* await stream_manager.start() from /stream/start or the application's lifespan
Start ==
    /\ CanStart
    /\ running' = StartManager.running
    /\ tasks' = StartManager.tasks
    /\ consumerTask' = StartManager.consumerTask
    /\ heartbeatTask' = StartManager.heartbeatTask
    /\ UNCHANGED <<kafkaConsumer, closedConsumers, stopCoro, conns, queueOf>>
    /\ UNCHANGED <<clientOrder, queues, clientInfo, bcast, nBroadcasts>>
    /\ UNCHANGED storeVars

TaskDone(T, t) == T[t].state = "done"

\* task.cancel(): no effect on a finished task
Cancel(T, t) == IF TaskDone(T, t) THEN T ELSE [T EXCEPT ![t].cancel = TRUE]

\* is the Queue object of connection c the one registered under its client id
IsRegistered(C, O, c) == C[c].client_id \in DOMAIN O /\ O[C[c].client_id] = c

\* the registry entries of the client ids `ids` are dropped or replaced: the connections
\* that own the queues keep their Queue object and what it holds
Detached(C, Q, O, ids) ==
    [c \in DOMAIN C |->
        IF C[c].client_id \in ids /\ IsRegistered(C, O, c) /\ C[c].pc # "closed"
        THEN [C[c] EXCEPT !.q = Q[C[c].client_id]]
        ELSE C[c]]

\* stop(), from `if self._kafka_consumer:` to its end
StopClose ==
    /\ closedConsumers' = IF kafkaConsumer # 0 THEN closedConsumers \cup {kafkaConsumer}
                          ELSE closedConsumers
    /\ kafkaConsumer' = 0
    /\ conns' = Detached(conns, queues, queueOf, DOMAIN queues)
    /\ clientOrder' = <<>>
    /\ queues' = EmptyTable
    /\ clientInfo' = EmptyTable
    /\ queueOf' = EmptyTable
    /\ stopCoro' = [pc |-> "idle", task |-> 0]

\* stop(), from `if self._heartbeat_task:`: cancel it and wait for it, or go on
StopHeartbeat(T) ==
    IF heartbeatTask # 0 /\ ~TaskDone(T, heartbeatTask)
    THEN /\ tasks' = Cancel(T, heartbeatTask)
         /\ stopCoro' = [pc |-> "await_heartbeat", task |-> heartbeatTask]
         /\ UNCHANGED <<kafkaConsumer, closedConsumers, conns, queueOf, clientOrder, queues,
                        clientInfo>>
    ELSE /\ tasks' = T
         /\ StopClose

\* await stream_manager.stop(), up to its first suspension
StopCall ==
    /\ stopCoro.pc = "idle"
    /\ running' = FALSE
    /\ IF consumerTask # 0 /\ ~TaskDone(tasks, consumerTask)
       THEN /\ tasks' = Cancel(tasks, consumerTask)
            /\ stopCoro' = [pc |-> "await_consumer", task |-> consumerTask]
            /\ UNCHANGED <<kafkaConsumer, closedConsumers, conns, queueOf, clientOrder, queues,
                           clientInfo>>
       ELSE StopHeartbeat(tasks)
    /\ UNCHANGED <<consumerTask, heartbeatTask, bcast, nBroadcasts>>
    /\ UNCHANGED storeVars

\* stop() resumes when the task it awaits has finished
StopResume ==
    /\ stopCoro.pc # "idle"
    /\ TaskDone(tasks, stopCoro.task)
    /\ IF stopCoro.pc = "await_consumer"
       THEN StopHeartbeat(tasks)
       ELSE /\ tasks' = tasks
            /\ StopClose
    /\ UNCHANGED <<running, consumerTask, heartbeatTask, bcast, nBroadcasts>>
    /\ UNCHANGED storeVars

\* a cancelled task runs: CancelledError at its await ends the loop or the task
TaskCancelled(t) ==
    /\ tasks[t].state # "done"
    /\ tasks[t].cancel
    /\ tasks' = [tasks EXCEPT ![t].state = "done"]
    /\ UNCHANGED <<running, consumerTask, heartbeatTask, kafkaConsumer, closedConsumers,
                   stopCoro, conns, queueOf>>
    /\ UNCHANGED <<clientOrder, queues, clientInfo, bcast, nBroadcasts>>
    /\ UNCHANGED storeVars

\* `while self._running:` at the top of a loop whose body waits in `state`
AfterLoop(r, state) == IF r THEN state ELSE "done"

\* where the consumer loop is after one poll: `continue` or the end of the body lead to
\* `while self._running:`, an exception to `except Exception:` and its sleep of 1 s
\* (faulty variant: the exception leaves the loop)
AfterPollMut(outcome, r) ==
    IF Raises(outcome) THEN "done" ELSE AfterLoop(r, "poll")

AfterPoll(outcome, r) ==
    IF Raises(outcome) THEN "backoff" ELSE AfterLoop(r, "poll")

\* _kafka_consumer_loop up to the loop: the consumer is created and subscribed, or
\* `except Exception` ("Failed to start Kafka consumer") ends the task
ConsumerInit(t, ok) ==
    /\ tasks[t].kind = "consumer"
    /\ tasks[t].state = "created"
    /\ ~tasks[t].cancel
    /\ IF ok
       THEN /\ kafkaConsumer' = t
            /\ tasks' = [tasks EXCEPT ![t].state = AfterLoop(running, "poll")]
       ELSE /\ kafkaConsumer' = kafkaConsumer
            /\ tasks' = [tasks EXCEPT ![t].state = "done"]
    /\ UNCHANGED <<running, consumerTask, heartbeatTask, closedConsumers, stopCoro, conns,
                   queueOf>>
    /\ UNCHANGED <<clientOrder, queues, clientInfo, bcast, nBroadcasts>>
    /\ UNCHANGED storeVars

\* message = {"event": event_type, "data": data, ...}; of the data, what it is and the
\* heartbeat's client_count (0 for the other events) are kept
Message(event_type, topic, data, client_count) ==
    [event |-> event_type, topic |-> topic, data |-> data, client_count |-> client_count]

\* broadcast(...) over the registry with the queues Q
BroadcastOut(Q, message) ==
    BroadcastLoop(clientOrder, Q, clientInfo, message,
                  [queues |-> Q, raised |-> FALSE, skipped |-> {}, delivered |-> {},
                   dropped |-> {}])

BcastOf(message, out) ==
    [event |-> message.event, topic |-> message.topic, raised |-> out.raised,
     skipped |-> out.skipped, delivered |-> out.delivered, dropped |-> out.dropped]

\* the broadcasts made for one polled message, in order; `saved` tells whether the smart
\* store of a social event went through
BroadcastsOf(outcome, saved) ==
    CASE outcome = "vks"         -> <<Message("vks_update", "vks-scores", "vks_scores", 0)>>
      [] outcome \in MarketInputs ->
            LET actual_data == ActualData(RawData(outcome))
            IN  <<Message("trend_update", "market-stream", actual_data, 0)>>
                \o (IF HasSocialData(actual_data)
                    THEN <<Message("vks_update", "vks-scores", VksData(saved), 0)>>
                    ELSE <<>>)
      [] outcome = "other"       -> <<Message("message", "other", "json", 0)>>
      [] OTHER                   -> <<>>

\* what handling one market-stream message does to the subscriber queues and to the
\* store, in the order of the statements: broadcast("trend_update", ...), then in
\* _calculate_vks_from_market_data the commits of upsert_post and save_tag_score that went
\* through, then broadcast("vks_update", ...)
Effects(outcome, r) ==
    IF outcome \notin MarketInputs THEN <<>>
    ELSE <<"broadcast trend_update">>
         \o (IF HasSocialData(ActualData(RawData(outcome)))
             THEN (IF r.stored THEN <<"commit upsert_post">> ELSE <<>>)
                  \o (IF r.saved THEN <<"commit save_tag_score">> ELSE <<>>)
                  \o <<"broadcast vks_update">>
             ELSE <<>>)

\* the polls for which _calculate_vks_from_market_data is called
Stores(outcome) == outcome \in MarketInputs /\ HasSocialData(ActualData(RawData(outcome)))

\* one turn of the loop of _kafka_consumer_loop: poll, handle the message, loop
ConsumerPoll(t, outcome, fail) ==
    /\ tasks[t].kind = "consumer"
    /\ tasks[t].state = "poll"
    /\ ~tasks[t].cancel
    /\ kafkaConsumer = 0 => outcome = "exception"
    /\ ~Stores(outcome) => fail = "none"
    /\ LET r    == SmartStore(posts, tagScores, hist, "tiktok", "#ai", "p1",
                              CHOOSE s \in StatsInputs : s.views = 10,
                              CHOOSE sc \in ScoreInputs : TRUE, fail, now)
           ms   == BroadcastsOf(outcome, r.saved)
           out1 == IF Len(ms) >= 1 THEN BroadcastOut(queues, ms[1])
                   ELSE [queues |-> queues]
           out2 == IF Len(ms) >= 2 THEN BroadcastOut(out1.queues, ms[2]) ELSE out1
       IN  /\ nBroadcasts + Len(ms) <= MaxTaskBroadcasts
           /\ nBroadcasts' = nBroadcasts + Len(ms)
           /\ queues' = out2.queues
           /\ bcast' = IF Len(ms) = 0 THEN bcast ELSE BcastOf(ms[Len(ms)], out2)
           /\ IF Stores(outcome)
              THEN posts' = r.posts /\ tagScores' = r.tagScores /\ hist' = r.hist
              ELSE UNCHANGED <<posts, tagScores, hist>>
    /\ tasks' = [tasks EXCEPT ![t].state = AfterPoll(outcome, running),
                              ![t].caught = @ \/ Raises(outcome),
                              ![t].effects =
                                 Effects(outcome,
                                         SmartStore(posts, tagScores, hist, "tiktok", "#ai",
                                                    "p1",
                                                    CHOOSE s \in StatsInputs : s.views = 10,
                                                    CHOOSE sc \in ScoreInputs : TRUE,
                                                    fail, now))]
    /\ UNCHANGED <<running, consumerTask, heartbeatTask, kafkaConsumer, closedConsumers,
                   stopCoro, conns, queueOf>>
    /\ UNCHANGED <<clientOrder, clientInfo>>
    /\ UNCHANGED <<now, writeLock, dbLock, pc, loc, calls>>

\* `except Exception:` ... `await asyncio.sleep(1)`, then the loop goes on
ConsumerBackoff(t) ==
    /\ tasks[t].kind = "consumer"
    /\ tasks[t].state = "backoff"
    /\ ~tasks[t].cancel
    /\ tasks' = [tasks EXCEPT ![t].state = AfterLoop(running, "poll")]
    /\ UNCHANGED <<running, consumerTask, heartbeatTask, kafkaConsumer, closedConsumers,
                   stopCoro, conns, queueOf>>
    /\ UNCHANGED <<clientOrder, queues, clientInfo, bcast, nBroadcasts>>
    /\ UNCHANGED storeVars

\* _heartbeat_loop starts: `while self._running:` and the first `await asyncio.sleep(15)`
HeartbeatStart(t) ==
    /\ tasks[t].kind = "heartbeat"
    /\ tasks[t].state = "created"
    /\ ~tasks[t].cancel
    /\ tasks' = [tasks EXCEPT ![t].state = AfterLoop(running, "sleep")]
    /\ UNCHANGED <<running, consumerTask, heartbeatTask, kafkaConsumer, closedConsumers,
                   stopCoro, conns, queueOf>>
    /\ UNCHANGED <<clientOrder, queues, clientInfo, bcast, nBroadcasts>>
    /\ UNCHANGED storeVars

\* "client_count": len(self._clients)
\* (faulty variant: the subscribers of all topics only)
ClientCountMut(order, info) ==
    Len(SelectSeq(order, LAMBDA c : info[c].topics = Topics))

ClientCount(order, info) == Len(order)

\* one turn of _heartbeat_loop after its sleep: `if self._clients:` broadcast without a
\* topic; `except Exception` logs an error raised in the turn; then the loop goes on
HeartbeatTick(t, error) ==
    /\ tasks[t].kind = "heartbeat"
    /\ tasks[t].state = "sleep"
    /\ ~tasks[t].cancel
    /\ IF ~error /\ clientOrder # <<>>
       THEN LET message == Message("heartbeat", None, "ping",
                                    ClientCount(clientOrder, clientInfo))
                out     == BroadcastOut(queues, message)
            IN  /\ nBroadcasts < MaxTaskBroadcasts
                /\ nBroadcasts' = nBroadcasts + 1
                /\ queues' = out.queues
                /\ bcast' = BcastOf(message, out)
       ELSE UNCHANGED <<queues, bcast, nBroadcasts>>
    /\ tasks' = [tasks EXCEPT ![t].state = AfterLoop(running, "sleep"),
                              ![t].caught = @ \/ error]
    /\ UNCHANGED <<running, consumerTask, heartbeatTask, kafkaConsumer, closedConsumers,
                   stopCoro, conns, queueOf>>
    /\ UNCHANGED <<clientOrder, clientInfo>>
    /\ UNCHANGED storeVars

(* ------------------------- sse_event_generator ------------------------- *)
\* a generator suspended at its first yield, its Queue object registered; `yielded` holds
\* the messages it has yielded to the response so far
Conn(client_id) ==
    [client_id |-> client_id, pc |-> "connected", q |-> <<>>, unregs |-> 0,
     yielded |-> <<>>]

\* queue.get_nowait() on a queue that is not empty: the oldest message leaves the queue
\* (faulty variant: the newest one)
QueueGetMut(q) == [message |-> q[Len(q)], queue |-> SubSeq(q, 1, Len(q) - 1)]

QueueGet(q) == [message |-> Head(q), queue |-> Tail(q)]

\* sse_event_generator up to `yield format_sse_event("connected", ...)`: start the manager
\* if it is not running, register_client
GenStart(client_id, topics) ==
    /\ Len(conns) < MaxConns
    /\ CanStart
    /\ running' = StartManager.running
    /\ tasks' = StartManager.tasks
    /\ consumerTask' = StartManager.consumerTask
    /\ heartbeatTask' = StartManager.heartbeatTask
    /\ conns' = Append(Detached(conns, queues, queueOf, {client_id}), Conn(client_id))
    /\ clientOrder' = IF client_id \in DOMAIN queues THEN clientOrder
                      ELSE Append(clientOrder, client_id)
    /\ queues' = PutRow(queues, client_id, <<>>)
    /\ clientInfo' = PutRow(clientInfo, client_id, [topics |-> TopicsOrDefault(topics)])
    /\ queueOf' = PutRow(queueOf, client_id, Len(conns) + 1)
    /\ UNCHANGED <<kafkaConsumer, closedConsumers, stopCoro, bcast, nBroadcasts>>
    /\ UNCHANGED storeVars

\* the response asks for the next event: the generator enters `try: while True:`
GenResume(c) ==
    /\ conns[c].pc = "connected"
    /\ conns' = [conns EXCEPT ![c].pc = "loop"]
    /\ UNCHANGED <<running, tasks, consumerTask, heartbeatTask, kafkaConsumer,
                   closedConsumers, stopCoro, queueOf>>
    /\ UNCHANGED <<clientOrder, queues, clientInfo, bcast, nBroadcasts>>
    /\ UNCHANGED storeVars

\* message = queue.get_nowait() and yield, or Empty and `await asyncio.sleep(0.1)`: on
\* the generator's own Queue object, registered or not
GenPoll(c) ==
    /\ conns[c].pc = "loop"
    /\ IF IsRegistered(conns, queueOf, c)
       THEN IF queues[conns[c].client_id] = <<>>
            THEN /\ conns' = [conns EXCEPT ![c].pc = "sleep"]
                 /\ UNCHANGED queues
            ELSE LET got == QueueGet(queues[conns[c].client_id])
                 IN  /\ queues' = [queues EXCEPT ![conns[c].client_id] = got.queue]
                     /\ conns' = [conns EXCEPT ![c].yielded = Append(@, got.message)]
       ELSE /\ conns' = IF conns[c].q = <<>> THEN [conns EXCEPT ![c].pc = "sleep"]
                        ELSE [conns EXCEPT ![c].q = QueueGet(conns[c].q).queue,
                                           ![c].yielded =
                                              Append(@, QueueGet(conns[c].q).message)]
            /\ UNCHANGED queues
    /\ UNCHANGED <<running, tasks, consumerTask, heartbeatTask, kafkaConsumer,
                   closedConsumers, stopCoro, queueOf>>
    /\ UNCHANGED <<clientOrder, clientInfo, bcast, nBroadcasts>>
    /\ UNCHANGED storeVars

\* the sleep of 0.1 s is over: `while True:` again
GenWake(c) ==
    /\ conns[c].pc = "sleep"
    /\ conns' = [conns EXCEPT ![c].pc = "loop"]
    /\ UNCHANGED <<running, tasks, consumerTask, heartbeatTask, kafkaConsumer,
                   closedConsumers, stopCoro, queueOf>>
    /\ UNCHANGED <<clientOrder, queues, clientInfo, bcast, nBroadcasts>>
    /\ UNCHANGED storeVars

\* the generator is closed or cancelled where it is suspended: at the first yield nothing
\* of the generator runs; inside the try the `finally` calls unregister_client(client_id)
GenClose(c) ==
    /\ conns[c].pc \in {"connected", "loop", "sleep"}
    /\ IF conns[c].pc = "connected"
       THEN /\ conns' = [conns EXCEPT ![c].pc = "closed", ![c].q = <<>>]
            /\ UNCHANGED <<clientOrder, queues, clientInfo, queueOf>>
       ELSE LET client_id == conns[c].client_id
            IN  /\ conns' = [Detached(conns, queues, queueOf, {client_id})
                               EXCEPT ![c].pc = "closed", ![c].q = <<>>,
                                      ![c].unregs = @ + 1]
                /\ IF client_id \in DOMAIN queues
                   THEN /\ clientOrder' = RemoveFromSeq(clientOrder, client_id)
                        /\ queues' = DropRows(queues, {client_id})
                        /\ clientInfo' = DropRows(clientInfo, {client_id})
                        /\ queueOf' = DropRows(queueOf, {client_id})
                   ELSE UNCHANGED <<clientOrder, queues, clientInfo, queueOf>>
    /\ UNCHANGED <<running, tasks, consumerTask, heartbeatTask, kafkaConsumer,
                   closedConsumers, stopCoro>>
    /\ UNCHANGED <<bcast, nBroadcasts>>
    /\ UNCHANGED storeVars

\* Start and stop requests against the tasks and new connections of one client id; the
\* consumer polls bring no message.
LifeNext ==
    \/ Start
    \/ StopCall
    \/ StopResume
    \/ \E t \in DOMAIN tasks : TaskCancelled(t)
    \/ \E t \in DOMAIN tasks, ok \in BOOLEAN : ConsumerInit(t, ok)
    \/ \E t \in DOMAIN tasks, o \in {"none", "exception"} : ConsumerPoll(t, o, "none")
    \/ \E t \in DOMAIN tasks : ConsumerBackoff(t)
    \/ \E t \in DOMAIN tasks : HeartbeatStart(t)
    \/ \E t \in DOMAIN tasks : nBroadcasts < MaxLifeBroadcasts /\ HeartbeatTick(t, FALSE)
    \/ GenStart("c1", {})
    \/ \E c \in DOMAIN conns : GenResume(c)
    \/ \E c \in DOMAIN conns : GenPoll(c)
    \/ \E c \in DOMAIN conns : GenWake(c)
    \/ \E c \in DOMAIN conns : GenClose(c)

\* register_client, unregister_client and stop() in any order, with broadcasts that fill
\* the queues and a manager that may be running when it is stopped.
RegistryNext ==
    \/ \E c \in ClientIds, t \in LifeTopicsInputs : RegisterClient(c, t)
    \/ \E c \in ClientIds : UnregisterClient(c)
    \/ \E b \in BroadcastInputs : nBroadcasts < MaxRegistryBroadcasts /\ Broadcast(b.event, b.topic)
    \/ Start
    \/ StopCall
    \/ StopResume
    \/ \E t \in DOMAIN tasks : TaskCancelled(t)

\* the steps that the event loop takes by itself for connections and stop()
ConnSystemNext ==
    \/ StopResume
    \/ \E t \in DOMAIN tasks : TaskCancelled(t)
    \/ \E t \in DOMAIN tasks : HeartbeatStart(t)
    \/ \E t \in DOMAIN tasks : nBroadcasts < MaxLifeBroadcasts /\ HeartbeatTick(t, FALSE)
    \/ \E c \in DOMAIN conns : GenResume(c)
    \/ \E c \in DOMAIN conns : GenPoll(c)
    \/ \E c \in DOMAIN conns : GenWake(c)

\* Connections that come and go, heartbeats, and /stream/stop.
ConnNext ==
    \/ ConnSystemNext
    \/ StopCall
    \/ \E id \in ClientIds, topics \in LifeTopicsInputs : GenStart(id, topics)
    \/ \E c \in DOMAIN conns : GenClose(c)

\* the connections of HeartbeatSpec and ConsumerSpec: one of /stream/all and one of /stream/vks
LoopClients == { [client_id |-> "c1", topics |-> {}],
                 [client_id |-> "c2", topics |-> {"vks-scores"}] }

\* The heartbeat loop at work for the registered connections, until the manager is stopped.
HeartbeatNext ==
    \/ \E r \in LoopClients : GenStart(r.client_id, r.topics)
    \/ \E t \in DOMAIN tasks : HeartbeatStart(t)
    \/ \E t \in DOMAIN tasks, e \in BOOLEAN : HeartbeatTick(t, e)
    \/ StopCall
    \/ StopResume
    \/ \E t \in DOMAIN tasks : TaskCancelled(t)

\* The consumer loop at work for the registered connections, until the manager is stopped.
ConsumerNext ==
    \/ \E r \in LoopClients :
          r.client_id \notin DOMAIN queues /\ GenStart(r.client_id, r.topics)
    \/ \E t \in DOMAIN tasks, ok \in BOOLEAN : ConsumerInit(t, ok)
    \/ \E t \in DOMAIN tasks, f \in {"none"},
          o \in {"none", "error", "vks", "market", "market_social", "other", "exception"} :
          /\ nBroadcasts + Len(BroadcastsOf(o, TRUE)) <= MaxConsumerBroadcasts
          /\ ConsumerPoll(t, o, f)
    \/ \E t \in DOMAIN tasks : ConsumerBackoff(t)
    \/ StopCall
    \/ StopResume
    \/ \E t \in DOMAIN tasks : TaskCancelled(t)

\* The consumer loop handling market-stream messages of every shape for two subscribers
\* that stay connected, the store failing or not.
MarketNext ==
    \/ \E r \in LoopClients :
          r.client_id \notin DOMAIN queues /\ GenStart(r.client_id, r.topics)
    \/ \E t \in DOMAIN tasks : ConsumerInit(t, TRUE)
    \/ \E t \in DOMAIN tasks, o \in MarketInputs \cup {"market_bytes"}, f \in FailInputs :
          /\ nBroadcasts + Len(BroadcastsOf(o, TRUE)) <= MaxConsumerBroadcasts
          /\ ConsumerPoll(t, o, f)
    \/ \E t \in DOMAIN tasks : ConsumerBackoff(t)

\* Two subscribers draining their queues while the consumer loop broadcasts, until they
\* disconnect.
DrainNext ==
    \/ \E r \in LoopClients :
          r.client_id \notin DOMAIN queues /\ GenStart(r.client_id, r.topics)
    \/ \E c \in DOMAIN conns : GenResume(c)
    \/ \E c \in DOMAIN conns : GenPoll(c)
    \/ \E c \in DOMAIN conns : GenWake(c)
    \/ \E c \in DOMAIN conns : GenClose(c)
    \/ \E t \in DOMAIN tasks : ConsumerInit(t, TRUE)
    \/ \E t \in DOMAIN tasks, o \in {"vks", "market_social"} :
          ConsumerPoll(t, o, "none")

Init == StoreInit /\ StreamInit /\ LifeInit

Next == StoreNext

Spec == Init /\ [][Next]_vars

RetentionSpec == Init /\ [][RetentionNext]_vars

ConcSpec == Init /\ [][ConcNext]_vars

StreamSpec == Init /\ [][StreamNext]_vars

IngestSpec == Init /\ [][IngestNext]_vars

LifeSpec == Init /\ [][LifeNext]_vars

ConnSpec == Init /\ [][ConnNext]_vars

\* the event loop runs every coroutine and task that is ready
ConnFairSpec == ConnSpec /\ WF_vars(ConnSystemNext)

HeartbeatSpec == Init /\ [][HeartbeatNext]_vars

ScoreSpec == Init /\ [][ScoreNext]_vars

TrendSpec == Init /\ [][TrendNext]_vars

ScoredSpec == Init /\ [][ScoredNext]_vars

BatchSpec == Init /\ [][BatchNext]_vars

ClassSpec == Init /\ [][ClassNext]_vars

RegistrySpec == Init /\ [][RegistryNext]_vars

DisplaySpec == Init /\ [][DisplayNext]_vars

TagSpec == Init /\ [][TagNext]_vars

DrainSpec == Init /\ [][DrainNext]_vars

MarketSpec == Init /\ [][MarketNext]_vars

ConsumerSpec == Init /\ [][ConsumerNext]_vars

(* -------------------------------- properties --------------------------- *)
\* the stored rows of one (platform, post_id) pair
RowsOfKey(P, k) == {i \in DOMAIN P : PostKey(P[i].platform, P[i].post_id) = k}

\* C1: after the k-th successful upsert_post on one (platform, post_id), with no other
\* operation writing the pair in between, the stored record has update_count = k, current
\* counters those of the k-th call and previous counters those of the (k-1)-th call
\* (all zero when k = 1); the call returns is_new = TRUE exactly when k = 1.
C1_UpsertSequence ==
    /\ \A k \in PostKeys :
         LET done == hist[k].done
             n    == Len(done)
         IN  (hist[k].pure /\ n > 0) =>
               \E i \in DOMAIN posts :
                  /\ RowsOfKey(posts, k) = {i}
                  /\ posts[i].update_count = n
                  /\ posts[i].cur = done[n]
                  /\ posts[i].prev = IF n = 1 THEN ZeroStats ELSE done[n - 1]
    /\ \A w \in Workers :
         (pc[w] = "done" /\ loc[w].op = "upsert_post" /\ ~loc[w].raised
            /\ hist[PostKey(loc[w].platform, loc[w].post_id)].pure) =>
           (loc[w].ret.is_new <=> Len(hist[PostKey(loc[w].platform, loc[w].post_id)].done) = 1)

\* the third upsert of a post has just returned, its counters differing from the second's
C1_ThirdUpsertReturned ==
    /\ pc["w1"] = "done" /\ loc["w1"].op = "upsert_post" /\ ~loc["w1"].raised
    /\ LET h == hist[PostKey(loc["w1"].platform, loc["w1"].post_id)]
       IN  h.pure /\ Len(h.done) = 3 /\ h.done[2] # h.done[3] /\ h.done[1] # h.done[2]

\* C2: the posts table holds at most one record per (platform, post_id); an upsert_post
\* that finds the pair stored changes that record in place and adds none.
C2_OneRecordPerPair ==
    /\ [](\A i, j \in DOMAIN posts :
            (posts[i].platform = posts[j].platform /\ posts[i].post_id = posts[j].post_id)
               => i = j)
    /\ [][\A w \in Workers :
            (pc[w] = "up_write" /\ pc'[w] = "done" /\ ~loc'[w].raised
               /\ UniqueId(loc[w].platform, loc[w].post_id) \in DOMAIN posts) =>
              /\ DOMAIN posts' = DOMAIN posts
              /\ posts'[UniqueId(loc[w].platform, loc[w].post_id)].update_count =
                   posts[UniqueId(loc[w].platform, loc[w].post_id)].update_count + 1
              /\ \A i \in DOMAIN posts :
                   i # UniqueId(loc[w].platform, loc[w].post_id) => posts'[i] = posts[i]]_vars

\* two posts are stored and an upsert_post of one of them has just updated it
C2_UpdatedInPlace ==
    /\ Cardinality(DOMAIN posts) = 2
    /\ \E i \in DOMAIN posts : posts[i].update_count = 2
    /\ pc["w1"] = "done" /\ loc["w1"].op = "upsert_post" /\ ~loc["w1"].raised
    /\ loc["w1"].ret.is_new = FALSE

\* C3: with no writer active, get_tag_aggregated_stats(platform, tag) returns, after any
\* upserts and cleanups, counter sums equal to the sums over the post records stored under
\* (platform, tag), post_count their number and new_posts the number with update_count = 1.
C3_AggregateConsistency ==
    \A w \in Workers :
       (pc[w] = "done" /\ loc[w].op = "get_tag_aggregated_stats") =>
          LET I == {i \in DOMAIN posts : /\ posts[i].platform = Lower(loc[w].platform)
                                         /\ posts[i].tag = CleanTag(loc[w].tag)}
          IN  /\ \A f \in Fields : loc[w].ret.current[f] = SumIds(posts, I, f)
              /\ \A f \in Fields : loc[w].ret.previous[f] = SumPrevIds(posts, I, f)
              /\ loc[w].ret.post_count = Cardinality(I)
              /\ loc[w].ret.new_posts = Cardinality({i \in I : posts[i].update_count = 1})

\* a read over a tag of two posts, one new and one updated
C3_ReadOverTwoPosts ==
    /\ pc["w1"] = "done" /\ loc["w1"].op = "get_tag_aggregated_stats"
    /\ loc["w1"].ret.post_count = 2 /\ loc["w1"].ret.new_posts = 1
    /\ loc["w1"].ret.previous.views > 0

\* the rows a list query can return: get_posts_by_tag over every (platform, tag), with
\* its default limit
ListedPosts(P) ==
    UNION { UNION GetPostsByTag(P, p, t, DEFAULT_POSTS_LIMIT) : p \in PlatformInputs, t \in TagInputs }

\* get_tag_scores with its defaults: every platform, no score or activity filter
ListedTags(T) == UNION GetTagScores(T, None, DEFAULT_SCORES_LIMIT, 0, None)

\* C6: once cleanup_expired has run, no list query returns a post or tag record whose
\* last_updated_at is older than the retention window; each record it deletes was returned
\* by the list queries before it ran; records updated within the window stay as they were.
C6_Retention ==
    /\ [](\A w \in Workers :
            (pc[w] = "done" /\ loc[w].op = "cleanup_expired") =>
               /\ \A i \in ListedPosts(posts) :
                     posts[i].last_updated_at >= now - RETENTION_HOURS
               /\ \A i \in ListedTags(tagScores) :
                     tagScores[i].last_updated_at >= now - RETENTION_HOURS)
    /\ [][\A w \in Workers :
            (loc[w].op = "cleanup_expired" /\ pc'[w] # pc[w]) =>
               /\ \A i \in DOMAIN posts :
                     IF posts[i].last_updated_at >= now - RETENTION_HOURS
                     THEN i \in DOMAIN posts' /\ posts'[i] = posts[i]
                     ELSE i \in ListedPosts(posts)
               /\ \A i \in DOMAIN tagScores :
                     IF tagScores[i].last_updated_at >= now - RETENTION_HOURS
                     THEN i \in DOMAIN tagScores' /\ tagScores'[i] = tagScores[i]
                     ELSE i \in ListedTags(tagScores)]_vars

\* cleanup_expired has deleted an expired post and an expired tag score and kept a fresh
\* post
C6_CleanedAndKept ==
    /\ pc["w1"] = "done" /\ loc["w1"].op = "cleanup_expired"
    /\ loc["w1"].posts_count > 0 /\ loc["w1"].tags_count > 0
    /\ \E i \in DOMAIN posts : posts[i].last_updated_at >= now - RETENTION_HOURS

\* C7: whatever is stored and whatever current_batch_size is (positive, zero, negative,
\* smaller than the number of new posts), the freshness_rate that
\* get_tag_aggregated_stats returns lies in [0, 1].
C7_FreshnessBounded ==
    \A w \in Workers :
       (pc[w] = "done" /\ loc[w].op = "get_tag_aggregated_stats") =>
          (0 <= loc[w].ret.freshness_milli /\ loc[w].ret.freshness_milli <= 1000)

\* a read with current_batch_size = 1 over a tag that has two new posts
C7_MoreNewPostsThanBatch ==
    /\ pc["w1"] = "done" /\ loc["w1"].op = "get_tag_aggregated_stats"
    /\ loc["w1"].idx = 1 /\ loc["w1"].ret.new_posts = 2
    /\ loc["w1"].ret.freshness_milli = 1000

\* worker w is inside the transaction of an upsert_post on key k
UpsertInTransaction(w, k) ==
    /\ pc[w] \in {"up_select", "up_write"}
    /\ PostKey(loc[w].platform, loc[w].post_id) = k

\* C8: when upsert_post calls on one (platform, post_id) run concurrently, the record they
\* leave is the one their serial execution in lock-acquisition order leaves: update_count
\* is the number of successful calls, the current counters are the last call's and the
\* previous counters those of the call before it.
C8_SerialInLockOrder ==
    \A k \in PostKeys :
       LET acq == hist[k].acq
           n   == Len(acq)
       IN  (hist[k].pure /\ n > 0 /\ ~\E w \in Workers : UpsertInTransaction(w, k)) =>
             /\ hist[k].done = acq
             /\ \E i \in DOMAIN posts :
                  /\ RowsOfKey(posts, k) = {i}
                  /\ posts[i].update_count = n
                  /\ posts[i].cur = acq[n]
                  /\ posts[i].prev = IF n = 1 THEN ZeroStats ELSE acq[n - 1]

\* two overlapping upsert_post calls on one post, with different counters, have both returned
C8_OverlappingUpsertsDone ==
    \E k \in PostKeys :
       /\ hist[k].overlap /\ hist[k].pure
       /\ Len(hist[k].acq) = 2 /\ hist[k].acq[1] # hist[k].acq[2]
       /\ \A w \in Workers : pc[w] = "done" /\ loc[w].op = "upsert_post"

\* C9: every step of a store operation that changes rows of posts or tag_scores is taken
\* by the worker that holds the write lock.
C9_WritesHoldLock ==
    [][\A w \in Workers :
         (pc'[w] # pc[w] /\ (posts' # posts \/ tagScores' # tagScores)) => writeLock = w]_vars

\* C10: the row changes of one store operation become visible to readers all at once: no
\* operation commits its changes in two steps with a readable state in between.
C10_OperationsAtomic == \A w \in Workers : loc[w].writes <= 1

\* the clients a broadcast with this topic is meant for
Subscribed(topic) == {c \in DOMAIN queues : topic = None \/ topic \in clientInfo[c].topics}

\* C4: a broadcast never raises and never waits; a subscriber it is meant for whose queue
\* is full keeps its queue as it was, and every other subscriber it is meant for has the
\* message appended to its queue in that same broadcast.
C4_BackpressureIsolation ==
    /\ [](nBroadcasts < MaxBroadcasts =>
            \A b \in BroadcastInputs : ENABLED Broadcast(b.event, b.topic))
    /\ [][nBroadcasts' # nBroadcasts =>
            /\ ~bcast'.raised
            /\ DOMAIN queues' = DOMAIN queues
            /\ \A c \in Subscribed(bcast'.topic) :
                  queues'[c] = IF Len(queues[c]) >= QueueMaxSize THEN queues[c]
                               ELSE Append(queues[c], [event |-> bcast'.event,
                                                       topic |-> bcast'.topic])]_vars

\* a broadcast met a full queue on the first client and delivered to a later one
C4_DroppedForOneDeliveredToOther ==
    /\ Len(clientOrder) = 2
    /\ clientOrder[1] \in bcast.dropped
    /\ clientOrder[2] \in bcast.delivered
    /\ Len(queues[clientOrder[1]]) = QueueMaxSize

\* C5: broadcast enqueues only on the queues of subscribers whose topics contain the
\* broadcast's topic, and on every subscriber's queue when no topic is given; no queue ever
\* holds a message of a topic its subscriber did not subscribe to.
C5_TopicFilter ==
    /\ [](\A c \in DOMAIN queues : \A i \in 1..Len(queues[c]) :
            queues[c][i].topic = None \/ queues[c][i].topic \in clientInfo[c].topics)
    /\ [][nBroadcasts' # nBroadcasts =>
            /\ \A c \in DOMAIN queues \ Subscribed(bcast'.topic) : queues'[c] = queues[c]
            /\ bcast'.delivered \cup bcast'.dropped = Subscribed(bcast'.topic)]_vars

\* a market-stream broadcast passed over a vks-scores subscriber and reached another client
C5_SkippedAndDelivered ==
    /\ bcast.topic = "market-stream"
    /\ \E c \in bcast.skipped : c \in DOMAIN clientInfo /\ clientInfo[c].topics = {"vks-scores"}
    /\ bcast.delivered # {}

WriteOps == {"upsert_post", "batch_upsert_posts"}

\* C11: when upsert_post or batch_upsert_posts fails inside its transaction, the error
\* reaches the caller, the transaction's writes are dropped and posts is as it was before
\* the call: the failing step leaves posts unchanged and no earlier step of the call
\* changed it; none of a failed batch's rows is inserted or updated.
C11_FailedWriteRollsBack ==
    /\ [](\A w \in Workers :
            (pc[w] = "done" /\ loc[w].op \in WriteOps /\ loc[w].raised) =>
               /\ loc[w].writes = 0
               /\ loc[w].txn = EmptyTable
               /\ writeLock # w /\ dbLock # w)
    /\ [][\A w \in Workers :
            /\ (loc'[w].op \in WriteOps /\ loc'[w].raised /\ ~loc[w].raised) => posts' = posts
            /\ (loc[w].op \in WriteOps /\ pc'[w] # pc[w] /\ posts' # posts) =>
                  (pc'[w] = "done" /\ ~loc'[w].raised)]_vars

\* a batch failed on its second element after its first had been inserted in the transaction
C11_BatchFailedHalfway ==
    /\ pc["w1"] = "done" /\ loc["w1"].op = "batch_upsert_posts" /\ loc["w1"].raised
    /\ loc["w1"].idx = 2 /\ loc["w1"].new_count = 1
    /\ DOMAIN posts # {}

\* C12: the post record and the tag record of one ingested event change together: when
\* persisting the event fails at any step, neither its post upsert nor its tag-score save
\* is visible afterwards.
C12_EventAllOrNothing ==
    [][\A w \in Workers :
         (pc[w] = "idle" /\ pc'[w] = "done" /\ loc'[w].op = "ingest" /\ loc'[w].raised) =>
            (posts' = posts /\ tagScores' = tagScores)]_vars

\* C13: whenever no event is being processed and no store operation is running, every
\* tag record that get_tag_scores returns has counter totals and post_count equal to the
\* sums and the count over the post records stored under its (platform, tag).
C13_TagRecordsMatchPosts ==
    (\A w \in Workers : pc[w] = "idle") =>
       \A i \in ListedTags(tagScores) :
          LET I == {j \in DOMAIN posts : /\ posts[j].platform = tagScores[i].platform
                                         /\ posts[j].tag = tagScores[i].tag}
          IN  /\ \A f \in Fields : tagScores[i].total[f] = SumIds(posts, I, f)
              /\ tagScores[i].post_count = Cardinality(I)

\* the step at which a call of stop() returns
StopReturns == (StopCall \/ StopResume) /\ stopCoro'.pc = "idle"

\* C14: after stop() returns the manager is not running, the ingestion task and the
\* heartbeat task have finished, the consumer handle is released and the subscriber
\* registry is empty, whatever start(), register_client and broadcast calls other tasks
\* made while stop() was suspended.
C14_StopLeavesManagerStopped ==
    [][StopReturns =>
          /\ ~running'
          /\ \A t \in DOMAIN tasks' : TaskDone(tasks', t)
          /\ kafkaConsumer' = 0
          /\ clientOrder' = <<>> /\ DOMAIN queues' = {}]_vars

\* the tasks of one kind that have not finished
AliveTasks(kind) == {t \in DOMAIN tasks : tasks[t].kind = kind /\ ~TaskDone(tasks, t)}

\* C15: the manager is only ever stopped or running and at most one ingestion task and at
\* most one heartbeat task are alive at any moment; start() on a running manager creates
\* no task, and stop() followed by start() replaces the old tasks and consumer handle.
C15_AtMostOneTaskOfEachKind ==
    /\ [](/\ Cardinality(AliveTasks("consumer")) <= 1
          /\ Cardinality(AliveTasks("heartbeat")) <= 1
          /\ running \in BOOLEAN)
    /\ [][(Start /\ running) => tasks' = tasks]_vars

\* the step at which the generator of connection c ends
GenEnds(c) == conns[c].pc # "closed" /\ conns'[c].pc = "closed"

\* C16: whenever a client's drain loop ends, at any of its suspension points including the
\* initial connected event, unregister_client has run exactly once for it and the
\* registry no longer holds that connection's queue.
C16_UnregisteredOnceAtEnd ==
    [][\A c \in DOMAIN conns :
          GenEnds(c) => /\ conns'[c].unregs = 1
                        /\ ~IsRegistered(conns', queueOf', c)]_vars

\* C17: the end of one connection removes only its own registration: the queues and topic
\* sets of all other subscribers, a newer connection under the same client_id included,
\* the running flag and the ingestion task are left unchanged.
C17_EndRemovesOnlyOwnRegistration ==
    [][\A c \in DOMAIN conns :
          GenEnds(c) =>
             /\ \A id \in DOMAIN queueOf :
                   queueOf[id] # c =>
                      /\ id \in DOMAIN queueOf' /\ queueOf'[id] = queueOf[id]
                      /\ queues'[id] = queues[id]
                      /\ clientInfo'[id] = clientInfo[id]
             /\ running' = running
             /\ tasks' = tasks /\ consumerTask' = consumerTask]_vars

\* the manager is stopped and stop() has returned
Stopped == ~running /\ stopCoro.pc = "idle"

\* C18: stopping the manager disconnects every connected client: after stop() returns,
\* each client's drain loop eventually terminates instead of polling its queue on.
C18_StopEndsDrainLoops ==
    \A c \in 1..MaxConns :
       (Stopped /\ c \in DOMAIN conns /\ conns[c].pc # "closed")
          ~> (c \in DOMAIN conns /\ conns[c].pc = "closed")

\* what queue q of a subscriber with the topic set `topics` holds after message m was
\* broadcast
Received(q, topics, m) ==
    IF (m.topic = None \/ m.topic \in topics) /\ Len(q) < QueueMaxSize THEN Append(q, m) ELSE q

\* C19: while the manager is running, every heartbeat tick enqueues exactly one heartbeat
\* message on the queue of every registered subscriber that is not full, whatever the
\* subscriber's topics, with client_count the number of registered subscribers at the
\* tick; an error during one tick does not stop later ticks.
C19_HeartbeatReachesEverySubscriber ==
    [][\A t \in DOMAIN tasks :
          /\ (running /\ HeartbeatTick(t, FALSE)) =>
                \A id \in DOMAIN queues :
                   queues'[id] =
                      IF Len(queues[id]) < QueueMaxSize
                      THEN Append(queues[id],
                                  [event |-> "heartbeat", topic |-> None, data |-> "ping",
                                   client_count |-> Cardinality(DOMAIN queues)])
                      ELSE queues[id]
          /\ (running /\ \E e \in BOOLEAN : HeartbeatTick(t, e)) =>
                (tasks'[t].state = "sleep" /\ ~tasks'[t].cancel)]_vars

\* a heartbeat sent after an error was logged: dropped for the full queue of c1, delivered
\* to c2, a subscriber of vks-scores only, with the count of both
C19_HeartbeatAfterError ==
    /\ bcast.event = "heartbeat" /\ bcast.dropped = {"c1"} /\ bcast.delivered = {"c2"}
    /\ clientInfo["c2"].topics = {"vks-scores"}
    /\ queues["c2"][Len(queues["c2"])].client_count = 2
    /\ \E t \in DOMAIN tasks : tasks[t].kind = "heartbeat" /\ tasks[t].caught

\* C20: once the ingestion loop is consuming, an empty poll, a message carrying a
\* transport error, or an exception raised while handling a message never ends the loop:
\* as long as the manager stays running the task goes on polling, and a well-formed message
\* polled is processed and broadcast.
C20_ConsumerLoopSurvives ==
    [][\A t \in DOMAIN tasks :
          /\ (running /\ \E o \in {"none", "error"} : ConsumerPoll(t, o, "none")) =>
                tasks'[t].state = "poll"
          /\ (running /\ ConsumerPoll(t, "exception", "none")) => tasks'[t].state = "backoff"
          /\ (running /\ ConsumerBackoff(t)) => tasks'[t].state = "poll"
          /\ \A o \in {"vks", "market", "market_social", "other"} :
                (running /\ \E f \in FailInputs : ConsumerPoll(t, o, f)) =>
                   \E saved \in BOOLEAN :
                      LET ms == BroadcastsOf(o, saved)
                      IN  /\ tasks'[t].state = "poll"
                          /\ nBroadcasts' = nBroadcasts + Len(ms)
                          /\ bcast'.event = ms[Len(ms)].event
                          /\ \A id \in DOMAIN queues :
                               LET q1 == Received(queues[id], clientInfo[id].topics, ms[1])
                               IN  queues'[id] =
                                      IF Len(ms) = 1 THEN q1
                                      ELSE Received(q1, clientInfo[id].topics, ms[2])]_vars

\* the consumer task, having logged an exception, is polling again and has broadcast a
\* vks_update that was enqueued for a subscriber
C20_BroadcastAfterException ==
    \E t \in DOMAIN tasks :
       /\ tasks[t].kind = "consumer" /\ tasks[t].caught /\ tasks[t].state = "poll"
       /\ running
       /\ bcast.event = "vks_update" /\ bcast.delivered # {}

\* C21: when creating or subscribing the consumer fails as the ingestion task starts, the
\* failure is not fatal: the task is still there to try again on a later tick, without
\* the manager being stopped and started again.
C21_StartupFailureRetried ==
    [][\A t \in DOMAIN tasks :
          (running /\ ConsumerInit(t, FALSE)) => ~TaskDone(tasks', t)]_vars

\* C22 as stated: every market-stream message whose payload is not valid JSON, text or
\* bytes that are not UTF-8, is broadcast as one trend_update carrying {raw: ...}, and the
\* loop goes on polling.
C22_NonJsonNeverDiscarded ==
    [][\A t \in DOMAIN tasks : \A o \in {"market_raw", "market_bytes"} :
          (running /\ ConsumerPoll(t, o, "none")) =>
             /\ nBroadcasts' = nBroadcasts + 1
             /\ bcast'.event = "trend_update"
             /\ tasks'[t].state = "poll"]_vars

\* C22, amended: a market-stream message whose payload is text but not valid JSON is
\* wrapped as {raw: text} and broadcast as exactly one trend_update to the market-stream
\* subscribers, no score update is broadcast or stored for it, and the loop polls again; a
\* payload that is not UTF-8 text is skipped: nothing is broadcast or stored, the error is
\* logged and the loop goes on after its pause.
C22_NonJsonTextWrappedAsRaw ==
    [][\A t \in DOMAIN tasks :
          /\ (running /\ ConsumerPoll(t, "market_raw", "none")) =>
                /\ nBroadcasts' = nBroadcasts + 1
                /\ bcast'.event = "trend_update"
                /\ \A id \in DOMAIN queues :
                      queues'[id] = Received(queues[id], clientInfo[id].topics,
                                             [event |-> "trend_update",
                                              topic |-> "market-stream", data |-> "raw",
                                              client_count |-> 0])
                /\ UNCHANGED <<posts, tagScores>>
                /\ tasks'[t].state = "poll"
          /\ (running /\ ConsumerPoll(t, "market_bytes", "none")) =>
                /\ UNCHANGED <<nBroadcasts, queues, posts, tagScores>>
                /\ tasks'[t].state = "backoff" /\ tasks'[t].caught]_vars

\* a subscriber's queue holds the raw passthrough as a trend_update while the consumer
\* task polls on and nothing was stored
C22_RawPassthroughQueued ==
    /\ running
    /\ \E id \in DOMAIN queues : \E i \in 1..Len(queues[id]) :
          queues[id][i].event = "trend_update" /\ queues[id][i].data = "raw"
    /\ \E t \in DOMAIN tasks : tasks[t].kind = "consumer" /\ tasks[t].state = "poll"
    /\ DOMAIN tagScores = {}

\* C23: handling a well-formed market-stream event that carries social fields, plain or
\* wrapped by the middleware, makes exactly two broadcasts: first one trend_update
\* carrying the unwrapped event, then one vks_update carrying the computed score; an event
\* without such fields makes the trend_update only.
C23_TrendUpdateThenVksUpdate ==
    [][\A t \in DOMAIN tasks :
          /\ \A o \in {"market_social", "market_wrapped"} :
                (running /\ \E f \in FailInputs : ConsumerPoll(t, o, f)) =>
                   /\ nBroadcasts' = nBroadcasts + 2
                   /\ \E score \in {"aggregated_score", "post_score"} :
                         \A id \in DOMAIN queues :
                            queues'[id] =
                               Received(Received(queues[id], clientInfo[id].topics,
                                                 [event |-> "trend_update",
                                                  topic |-> "market-stream",
                                                  data |-> "social_event",
                                                  client_count |-> 0]),
                                        clientInfo[id].topics,
                                        [event |-> "vks_update", topic |-> "vks-scores",
                                         data |-> score, client_count |-> 0])
          /\ (running /\ ConsumerPoll(t, "market", "none")) =>
                /\ nBroadcasts' = nBroadcasts + 1
                /\ \A id \in DOMAIN queues :
                      queues'[id] = Received(queues[id], clientInfo[id].topics,
                                             [event |-> "trend_update",
                                              topic |-> "market-stream", data |-> "event",
                                              client_count |-> 0])]_vars

\* a subscriber of every topic holds the trend_update of a social event directly followed
\* by its vks_update, and a subscriber of vks-scores holds the vks_update alone
C23_BothUpdatesQueuedInOrder ==
    /\ {"c1", "c2"} \subseteq DOMAIN queues
    /\ Len(queues["c1"]) = 2 /\ Len(queues["c2"]) = 1
    /\ queues["c1"][1].event = "trend_update" /\ queues["c1"][1].data = "social_event"
    /\ queues["c1"][2].event = "vks_update"
    /\ queues["c2"][1] = queues["c1"][2]

\* C24: of what the consumer task did for the market event it handled last, every
\* broadcast, trend_update and vks_update, comes after a commit of the store write for
\* that event.
C24_BroadcastAfterCommit ==
    \A t \in DOMAIN tasks :
       \A i \in 1..Len(tasks[t].effects) :
          tasks[t].effects[i] \in {"broadcast trend_update", "broadcast vks_update"} =>
             \E j \in 1..(i - 1) :
                tasks[t].effects[j] \in {"commit upsert_post", "commit save_tag_score"}

\* C25: when the store raises while a social event is being persisted, at upsert_post, at
\* the aggregate query or at save_tag_score, the consumer task logs no exception of its
\* loop and polls on, and the vks_update of the event is still broadcast after its
\* trend_update, carrying the single-post score.
C25_StoreFailureStaysInsideEvent ==
    [][\A t \in DOMAIN tasks : \A o \in {"market_social", "market_wrapped"} :
          (running /\ \E f \in FailInputs \ {"none"} : ConsumerPoll(t, o, f)) =>
             /\ tasks'[t].state = "poll"
             /\ tasks'[t].caught = tasks[t].caught
             /\ nBroadcasts' = nBroadcasts + 2
             /\ bcast'.event = "vks_update" /\ ~bcast'.raised
             /\ \A id \in DOMAIN queues :
                   queues'[id] =
                      Received(Received(queues[id], clientInfo[id].topics,
                                        [event |-> "trend_update", topic |-> "market-stream",
                                         data |-> "social_event", client_count |-> 0]),
                               clientInfo[id].topics,
                               [event |-> "vks_update", topic |-> "vks-scores",
                                data |-> "post_score", client_count |-> 0])]_vars

\* a subscriber holds a vks_update with the single-post score, no tag score was stored,
\* and the consumer task, which never logged an exception, is polling
C25_PostScoreAfterStoreFailure ==
    /\ running
    /\ \E id \in DOMAIN queues : \E i \in 1..Len(queues[id]) :
          queues[id][i].event = "vks_update" /\ queues[id][i].data = "post_score"
    /\ DOMAIN tagScores = {}
    /\ \E t \in DOMAIN tasks :
          tasks[t].kind = "consumer" /\ tasks[t].state = "poll" /\ ~tasks[t].caught

\* the messages of connection c in the order of its queue: those it has yielded, then
\* those waiting in its Queue object
Stream(C, Q, O, c) ==
    C[c].yielded \o (IF IsRegistered(C, O, c) THEN Q[C[c].client_id] ELSE C[c].q)

IsPrefix(s, t) == Len(s) <= Len(t) /\ SubSeq(t, 1, Len(s)) = s

\* C26: while a subscriber stays registered, every step leaves the messages it has
\* yielded followed by the messages waiting in its queue as they were or with newly
\* accepted messages added at the end, and a yield takes the oldest waiting message: the
\* subscriber yields its messages in the order they were enqueued, none twice and none
\* skipped.
C26_SubscriberOrderKept ==
    [][\A c \in DOMAIN conns :
          (IsRegistered(conns, queueOf, c) /\ IsRegistered(conns', queueOf', c)) =>
             /\ IsPrefix(Stream(conns, queues, queueOf, c),
                         Stream(conns', queues', queueOf', c))
             /\ IsPrefix(conns[c].yielded, conns'[c].yielded)
             /\ (GenPoll(c) /\ queues[conns[c].client_id] # <<>>) =>
                   /\ conns'[c].yielded =
                         Append(conns[c].yielded, queues[conns[c].client_id][1])
                   /\ Stream(conns', queues', queueOf', c)
                         = Stream(conns, queues, queueOf, c)]_vars

\* a registered subscriber has yielded the trend_update and then the vks_update of one
\* event, which were waiting together in its queue, and a later message is waiting
C26_YieldedInOrder ==
    \E c \in DOMAIN conns :
       /\ IsRegistered(conns, queueOf, c)
       /\ Len(conns[c].yielded) = 2
       /\ conns[c].yielded[1].event = "trend_update"
       /\ conns[c].yielded[2].event = "vks_update"
       /\ queues[conns[c].client_id] # <<>>

\* C27: save_tag_score leaves exactly one record for the normalised (platform, tag) and
\* touches no other record; the record holds the aggregates and the score of the call,
\* and its first_seen_at is the one it had, or the time of the call for a new record: a
\* call repeated with the same arguments changes nothing but last_updated_at.
C27_SaveTagScoreIdempotentUpsert ==
    [][SaveExec("w1") =>
         LET l   == loc["w1"]
             id  == TagId(l.platform, l.tag)
             row == tagScores'[id]
         IN  /\ DOMAIN tagScores' = DOMAIN tagScores \cup {id}
             /\ \A j \in DOMAIN tagScores \ {id} : tagScores'[j] = tagScores[j]
             /\ \A j \in DOMAIN tagScores' :
                   (tagScores'[j].platform = row.platform /\ tagScores'[j].tag = row.tag)
                      => j = id
             /\ row.total = l.agg.current /\ row.prev_total = l.agg.previous
             /\ row.post_count = l.agg.post_count /\ row.new_posts_count = l.agg.new_posts
             /\ row.freshness_milli = l.agg.freshness_milli
             /\ row.activity_level = l.agg.activity_level
             /\ row.trend_score = l.trend_score
             /\ row.last_updated_at = l.now
             /\ row.first_seen_at = IF id \in DOMAIN tagScores
                                    THEN tagScores[id].first_seen_at ELSE l.now
             /\ (id \in DOMAIN tagScores
                 /\ tagScores[id].total = l.agg.current
                 /\ tagScores[id].prev_total = l.agg.previous
                 /\ tagScores[id].post_count = l.agg.post_count
                 /\ tagScores[id].new_posts_count = l.agg.new_posts
                 /\ tagScores[id].trend_score = l.trend_score) =>
                   row = [tagScores[id] EXCEPT !.last_updated_at = l.now]]_vars

\* a tag record saved again in a later hour under another spelling, with another score and
\* other aggregates: still one record, first seen when it was first saved
C27_ScoreReplacedFirstSeenKept ==
    /\ pc["w1"] = "done" /\ loc["w1"].op = "save_tag_score"
    /\ loc["w1"].tag = "#Art" /\ loc["w1"].platform = "TikTok"
    /\ DOMAIN tagScores = {<<"tiktok", "art">>}
    /\ tagScores[<<"tiktok", "art">>].trend_score = 40
    /\ tagScores[<<"tiktok", "art">>].post_count = 2
    /\ tagScores[<<"tiktok", "art">>].first_seen_at = 0
    /\ tagScores[<<"tiktok", "art">>].last_updated_at = 2

\* the last non-empty value of display field f among the display arguments in `shown`,
\* or "" when there is none
RECURSIVE LastNonEmpty(_, _)
LastNonEmpty(shown, f) ==
    IF shown = <<>> THEN ""
    ELSE IF shown[Len(shown)][f] # "" THEN shown[Len(shown)][f]
    ELSE LastNonEmpty(SubSeq(shown, 1, Len(shown) - 1), f)

\* C28 as stated: after any sequence of upserts each display field of a post equals the
\* last non-empty value supplied for it.
C28_DisplayIsLastNonEmptySupplied ==
    \A id \in DOMAIN posts : \A f \in DisplayFields :
       posts[id].display[f] = LastNonEmpty(hist[PostKey(id[1], id[2])].shown, f)

\* C28, amended: after any sequence of upserts each display field of a post equals the
\* last non-empty value supplied for it, where a title or description supplied by the call
\* that created the post counts with its first 200 or 500 characters; and an upsert never
\* turns a known display field into an empty one.
C28_DisplayKeepsLastNonEmpty ==
    [][UpsertWrite("w1") =>
         \A id \in DOMAIN posts' : \A f \in DisplayFields :
            LET shown == hist'[PostKey(id[1], id[2])].shown
            IN  /\ posts'[id].display[f] =
                      LastNonEmpty(<<[shown[1] EXCEPT !.title = Cut(@),
                                                      !.description = Cut(@)]>>
                                   \o Tail(shown), f)
                /\ (id \in DOMAIN posts /\ posts[id].display[f] # "") =>
                      posts'[id].display[f] # ""]_vars

\* a post created with all display fields was upserted with an empty author and a new
\* title: the author is kept, the title replaced
C28_EmptyKeepsNonEmptyReplaces ==
    /\ pc["w1"] = "done" /\ loc["w1"].op = "upsert_post"
    /\ loc["w1"].display.author = "" /\ loc["w1"].display.title = "long title"
    /\ <<"tiktok", "p1">> \in DOMAIN posts
    /\ posts[<<"tiktok", "p1">>].update_count = 2
    /\ posts[<<"tiktok", "p1">>].display.author = "ann"
    /\ posts[<<"tiktok", "p1">>].display.title = "long title"

\* the metrics of a scoring call and of its previous snapshot, as compute_velocity gets them
MetricsOf(l) == ExtractMetrics(l.stats, DetectPlatform(l.platform))

PrevMetricsOf(l) ==
    IF l.existing = NoRow THEN NoRow ELSE ExtractMetrics(l.existing, DetectPlatform(l.platform))

\* C29: a scoring call without a previous snapshot, or whose metrics with a non-zero
\* platform weight are 0 in the previous and in the current snapshot, gets the velocity 0.5.
C29_NoHistoryIsNeutral ==
    \A w \in Workers :
       (pc[w] = "done" /\ loc[w].op = "compute_trend_score") =>
          LET weights == PlatformConfig(DetectPlatform(loc[w].platform)).weights
          IN  (\/ PrevMetricsOf(loc[w]) = NoRow
               \/ \A f \in Fields :
                     weights[f] # 0 =>
                        MetricsOf(loc[w])[f] = 0 /\ PrevMetricsOf(loc[w])[f] = 0)
                 => loc[w].ret.V = 500

\* instagram, which gives saves no weight, has scored a post that has only saves against
\* a previous snapshot: the velocity is neutral; and tiktok has scored a post without one
C29_NeutralWithAndWithoutSnapshot ==
    /\ pc["w1"] = "done" /\ loc["w1"].op = "compute_trend_score"
    /\ loc["w1"].platform = "instagram" /\ loc["w1"].stats.saves = 63
    /\ loc["w1"].existing # NoRow /\ loc["w1"].existing.saves = 21
    /\ loc["w1"].ret.V = 500
    /\ pc["w2"] = "done" /\ loc["w2"].op = "compute_trend_score"
    /\ loc["w2"].platform = "tiktok" /\ loc["w2"].existing = NoRow
    /\ loc["w2"].ret.V = 500

\* two scoring calls with the same platform, current counters, base and freshness: the
\* first against the snapshot grown from by 200%, the second against the one fallen from
\* by 30%
GrowthAndDecline ==
    /\ pc["w1"] = "done" /\ loc["w1"].op = "compute_trend_score"
    /\ pc["w2"] = "done" /\ loc["w2"].op = "compute_trend_score"
    /\ loc["w1"].platform = loc["w2"].platform /\ loc["w1"].stats = loc["w2"].stats
    /\ loc["w1"].base = loc["w2"].base
    /\ loc["w1"].freshness_rate = loc["w2"].freshness_rate
    /\ loc["w1"].existing = Grown200(loc["w1"].stats)
    /\ loc["w2"].existing = Declined30(loc["w2"].stats)

\* the platform's mapping reads a positive counter to which it gives a non-zero weight
ReadsWeightedCounter(l) ==
    \E f \in Fields :
       PlatformConfig(DetectPlatform(l.platform)).weights[f] # 0 /\ MetricsOf(l)[f] > 0

\* C30 as stated: all else fixed, the snapshot grown from by 200% yields a strictly
\* higher trend_score than the one fallen from by 30%, for every platform.
C30_GrowthScoresHigherEveryPlatform ==
    GrowthAndDecline => loc["w1"].ret.trend_score > loc["w2"].ret.trend_score

\* C30 as amended: the growth snapshot yields the strictly higher trend_score when the
\* platform's mapping reads a positive counter with a non-zero velocity weight, and the
\* same trend_score otherwise (linkedin, an unrecognised platform name, or counters the
\* platform does not read).
C30_GrowthScoresHigherWhereMeasured ==
    GrowthAndDecline =>
       IF ReadsWeightedCounter(loc["w1"])
       THEN loc["w1"].ret.trend_score > loc["w2"].ret.trend_score
       ELSE loc["w1"].ret.trend_score = loc["w2"].ret.trend_score

\* "x" has scored the same counters against both snapshots: velocity 0.75 against 0.175
C30_TwitterGrowthAboveDecline ==
    /\ GrowthAndDecline
    /\ loc["w1"].platform = "x" /\ loc["w1"].stats.views = 2100
    /\ loc["w1"].ret.V = 750 /\ loc["w2"].ret.V = 175
    /\ loc["w1"].ret.trend_score > loc["w2"].ret.trend_score

\* C31: compute_trend_score never raises: every call returns a complete result, whatever
\* the types of the counter values.
C31_ScorerNeverRaises ==
    (pc["w1"] = "done" /\ loc["w1"].op = "compute_adaptive_trend_score")
       => ~loc["w1"].raised

\* C32: detect_platform maps the seven names whatever their case and every other string
\* to UNKNOWN; a call for an UNKNOWN platform returns a result whose five counters are 0,
\* whose velocity is 0.5 and whose hotness is 0.20 times the normalised post count.
C32_UnknownPlatformIsDegraded ==
    (pc["w1"] = "done" /\ loc["w1"].op = "compute_adaptive_trend_score") =>
       LET l == loc["w1"]
           named == CASE l.platform \in {"tiktok", " TikTok"} -> "tiktok"
                      [] l.platform \in {"twitter", "x", "X"} -> "twitter"
                      [] l.platform \in {"instagram", "youtube", "reddit", "linkedin"}
                            -> l.platform
                      [] OTHER -> "unknown"
       IN  /\ ~l.raised => l.ret.platform_type = named
           /\ named = "unknown" =>
                 /\ ~l.raised
                 /\ \A f \in Fields : l.ret.raw_metrics[f] = 0
                 /\ l.ret.V = 500
                 /\ l.ret.H = (20 * LogNormalize(l.posts_count, 10000)) \div 100

\* "facebook" has been scored with positive counters, a previous snapshot and 50 posts
C32_FacebookScoredOnPostsOnly ==
    /\ pc["w1"] = "done" /\ loc["w1"].op = "compute_adaptive_trend_score"
    /\ loc["w1"].platform = "facebook" /\ loc["w1"].posts_count = 50
    /\ "views" \in DOMAIN loc["w1"].stats /\ loc["w1"].stats.views = 2100
    /\ loc["w1"].existing # NoRow
    /\ ~loc["w1"].raised
    /\ loc["w1"].ret.platform_type = "unknown"
    /\ loc["w1"].ret.V = 500 /\ loc["w1"].ret.H = 85

\* C33: in every result each of H, V, D, F, M and R lies in [0, 1], and trend_score is an
\* integer in [0, 100] that is 100 times the weighted sum 0.20H + 0.30V + 0.15D + 0.15F
\* + 0.20M - 0.25R, clamped to [0, 1], rounded to the nearest integer.
C33_DimensionsAndScoreInRange ==
    (pc["w1"] = "done" /\ loc["w1"].op = "compute_adaptive_trend_score" /\ ~loc["w1"].raised) =>
       LET r == loc["w1"].ret
           sum == 200 * r.H + 300 * r.V + 150 * r.D + 150 * r.F + 200 * r.M - 250 * r.R
           clamped == IF sum < 0 THEN 0 ELSE IF sum > 1000000 THEN 1000000 ELSE sum
           diff == r.trend_score * 1000000 - 100 * clamped
       IN  /\ \A d \in {r.H, r.V, r.D, r.F, r.M, r.R} : d \in 0..1000
           /\ r.trend_score \in 0..100
           /\ 2 * diff <= 1000000 /\ 2 * diff >= -1000000

\* instagram has scored a keyword of monetization 0.9 with two million views and a
\* freshness_rate of 7: M and D are cut to 1
C33_MonetizationAndDensityCut ==
    /\ pc["w1"] = "done" /\ loc["w1"].op = "compute_adaptive_trend_score"
    /\ ~loc["w1"].raised
    /\ loc["w1"].platform = "instagram" /\ loc["w1"].tag = "#AI Headshot"
    /\ loc["w1"].freshness_rate = 7000
    /\ loc["w1"].ret.M = 1000 /\ loc["w1"].ret.D = 1000 /\ loc["w1"].ret.F = 1000
    /\ loc["w1"].ret.trend_score > 60

\* C34: determine_lifecycle gives every (V, H, D) exactly one of the five lifecycles, the
\* one of the first rule that matches: rising for V >= 0.8; declining for V <= 0.2;
\* between them evergreen for H >= 0.7 and D >= 0.6; otherwise flash only for V >= 0.7
\* with H < 0.6, and sustained in every other case.
C34_LifecycleFirstMatch ==
    (pc["w1"] = "done" /\ loc["w1"].op = "determine_lifecycle") =>
       LET V == loc["w1"].dims.V
           H == loc["w1"].dims.H
           D == loc["w1"].dims.D
           r == loc["w1"].ret
           mid == V > 200 /\ V < 800
           evergreen == mid /\ H >= 700 /\ D >= 600
           flash == mid /\ ~evergreen /\ V >= 700 /\ H < 600
       IN  /\ r \in {"rising", "declining", "evergreen", "sustained", "flash"}
           /\ r = "rising" <=> V >= 800
           /\ r = "declining" <=> V <= 200
           /\ r = "evergreen" <=> evergreen
           /\ r = "flash" <=> flash
           /\ r = "sustained" <=> (mid /\ ~evergreen /\ ~flash)

\* V = 0.75 with H = 0.6 matches the sustained rule before the flash rule
C34_SustainedBeforeFlash ==
    /\ pc["w1"] = "done" /\ loc["w1"].op = "determine_lifecycle"
    /\ loc["w1"].dims.V = 700 /\ loc["w1"].dims.H = 600 /\ loc["w1"].dims.D = 0
    /\ loc["w1"].ret = "sustained"

\* the priority that the thresholds give to (trend_score, M, F): the highest tier all
\* three of whose thresholds hold
TierOf(trend_score, M, F) ==
    LET holds == [t \in {"P0", "P1", "P2"} |->
                    CASE t = "P0" -> trend_score >= 85 /\ M >= 850 /\ F >= 800
                      [] t = "P1" -> trend_score >= 75 /\ M >= 700 /\ F >= 600
                      [] t = "P2" -> trend_score >= 60 /\ M >= 500 /\ F >= 500]
    IN  CASE holds["P0"] -> "P0"
          [] ~holds["P0"] /\ holds["P1"] -> "P1"
          [] ~holds["P0"] /\ ~holds["P1"] /\ holds["P2"] -> "P2"
          [] OTHER -> "P3"

\* C35: determine_priority returns the highest tier whose three thresholds all hold, P3
\* when none does; in a result of compute_trend_score agent_ready is true exactly when
\* trend_score >= 60 and F >= 0.5, so a result of priority P0, P1 or P2 is agent_ready.
C35_PriorityTiersAndAgentReady ==
    /\ (pc["w1"] = "done" /\ loc["w1"].op = "determine_priority") =>
          loc["w1"].ret = TierOf(loc["w1"].trend_score, loc["w1"].dims.M, loc["w1"].dims.F)
    /\ (pc["w1"] = "done" /\ loc["w1"].op = "compute_adaptive_trend_score"
           /\ ~loc["w1"].raised) =>
          LET r == loc["w1"].ret
          IN  /\ r.priority = TierOf(r.trend_score, r.M, r.F)
              /\ r.agent_ready <=> (r.trend_score >= 60 /\ r.F >= 500)
              /\ r.priority \in {"P0", "P1", "P2"} => r.agent_ready

\* determine_priority has been called with a score and M of tier P0 and F = 0.75: P1
C35_TierNeedsAllThree ==
    /\ pc["w1"] = "done" /\ loc["w1"].op = "determine_priority"
    /\ loc["w1"].trend_score = 85 /\ loc["w1"].dims.M = 850 /\ loc["w1"].dims.F = 750
    /\ loc["w1"].ret = "P1"

\* a result of compute_trend_score has priority P1 and is agent_ready
C35_ResultP1AgentReady ==
    /\ pc["w1"] = "done" /\ loc["w1"].op = "compute_adaptive_trend_score"
    /\ ~loc["w1"].raised
    /\ loc["w1"].ret.priority = "P1" /\ loc["w1"].ret.agent_ready

\* current counters, previous counters and update_count of every stored post
Counters(P) ==
    [i \in DOMAIN P |-> [cur |-> P[i].cur, prev |-> P[i].prev,
                         update_count |-> P[i].update_count]]

\* the step on which batch_upsert_posts ends: its COMMIT, or its ROLLBACK
BatchEnds == pc["w1"] = "b_item" /\ pc'["w1"] = "done"

\* C36: when batch_upsert_posts ends, every post's current counters, previous counters
\* and update_count are those that upsert_post applied to the list's elements one by one
\* in order leaves, and the returned counts add up to the length of the list.
C36_BatchEqualsSequential ==
    [][BatchEnds =>
         /\ Counters(posts') =
               Counters(SeqUpserts(posts, loc["w1"].items, loc["w1"].now).posts)
         /\ ~loc'["w1"].raised =>
               loc'["w1"].ret.new_count + loc'["w1"].ret.updated_count
                  = Len(loc["w1"].items)]_vars

\* the same for the batches that commit
C36_CommittedBatchEqualsSequential ==
    [][(BatchEnds /\ ~loc'["w1"].raised) =>
         /\ Counters(posts') =
               Counters(SeqUpserts(posts, loc["w1"].items, loc["w1"].now).posts)
         /\ loc'["w1"].ret.new_count + loc'["w1"].ret.updated_count = Len(loc["w1"].items)]_vars

\* C37: an upsert_post of a post stored under the other letter case of the platform
\* updates that record as a same-case upsert would: it does not raise, adds no record,
\* and the record gets the new counters and one more update.
C37_OtherCaseUpsertUpdates ==
    [][UpsertWrite("w1") =>
         LET l == loc["w1"]
             I == {i \in DOMAIN posts :
                     posts[i].platform = Lower(l.platform) /\ posts[i].post_id = l.post_id}
         IN  I # {} =>
               /\ ~loc'["w1"].raised
               /\ DOMAIN posts' = DOMAIN posts
               /\ \A i \in I : /\ posts'[i].cur = l.stats
                               /\ posts'[i].update_count = posts[i].update_count + 1]_vars

\* C38: no step changes the tag of a stored post; an upsert_post that finds its post
\* stored under another tag gives it the new counters and leaves it among the rows of the
\* original tag's aggregate and outside the new tag's, and a batch_upsert_posts that
\* commits leaves the tag of every post it updated.
C38_TagFixedAtInsert ==
    [][/\ \A i \in DOMAIN posts \cap DOMAIN posts' : posts'[i].tag = posts[i].tag
       /\ UpsertWrite("w1") =>
             LET l  == loc["w1"]
                 id == UniqueId(l.platform, l.post_id)
             IN  (id \in DOMAIN posts /\ posts[id].tag # CleanTag(l.tag)) =>
                    /\ posts'[id].cur = l.stats
                    /\ id \in TagRows(posts', l.platform, posts[id].tag)
                    /\ id \notin TagRows(posts', l.platform, l.tag)
                    /\ GetTagAggregatedStats(posts', l.platform, l.tag, DEFAULT_BATCH_SIZE)
                          = GetTagAggregatedStats(posts, l.platform, l.tag, DEFAULT_BATCH_SIZE)]_vars

\* p1 was inserted under "ai" and then updated twice, the last time by an upsert_post
\* under "#Art": it is still a post of "ai"
C38_UpdatedUnderOtherTag ==
    /\ pc["w1"] = "done" /\ loc["w1"].op = "upsert_post" /\ loc["w1"].tag = "#Art"
    /\ loc["w1"].platform = "tiktok" /\ loc["w1"].post_id = "p1"
    /\ ~loc["w1"].raised
    /\ <<"tiktok", "p1">> \in DOMAIN posts
    /\ posts[<<"tiktok", "p1">>].tag = "ai"
    /\ posts[<<"tiktok", "p1">>].update_count = 3
    /\ posts[<<"tiktok", "p1">>].cur.views = 10
    /\ posts[<<"tiktok", "p1">>].prev.views = 20

\* C39: an event's aggregated score is computed with the previous sums exactly when the
\* previous sum of views is positive; when no post of the event's tag has views, now or
\* before, the velocity of the result and the velocity persisted with the tag are 0.5.
C39_NoViewsNeutralVelocity ==
    (pc["w1"] = "done" /\ loc["w1"].op = "ingest_scored") =>
       LET l == loc["w1"]
           I == TagRows(posts, l.platform, l.tag)
       IN  /\ l.existing # NoRow <=> SumPrevIds(posts, I, "views") > 0
           /\ (\A i \in I : posts[i].cur.views = 0 /\ posts[i].prev.views = 0) =>
                 /\ l.ret.V = 500
                 /\ tagScores[TagId(l.platform, l.tag)].V = 500

\* a Reddit post's comments have grown from 3 to 12: the velocity is still 0.5
C39_RedditGrowthNotSeen ==
    /\ pc["w1"] = "done" /\ loc["w1"].op = "ingest_scored"
    /\ loc["w1"].platform = "reddit" /\ loc["w1"].post_id = "p1"
    /\ posts[<<"reddit", "p1">>].update_count = 2
    /\ posts[<<"reddit", "p1">>].prev.comments = 3
    /\ posts[<<"reddit", "p1">>].cur.comments = 12
    /\ loc["w1"].agg.previous.comments = 3 /\ loc["w1"].agg.current.comments = 12
    /\ loc["w1"].ret.V = 500
    /\ tagScores[<<"reddit", "ai">>].V = 500

\* the ids of the clients in the order of self._clients
RegisteredIds == {clientOrder[i] : i \in DOMAIN clientOrder}

\* the two maps hold the same client ids, each once, and client_count is their number
RegistryConsistent ==
    /\ DOMAIN queues = DOMAIN clientInfo
    /\ RegisteredIds = DOMAIN queues
    /\ Len(clientOrder) = Cardinality(DOMAIN queues)
    /\ ClientCount(clientOrder, clientInfo) = Cardinality(DOMAIN clientInfo)

\* a step that gives a registered id another subscriber-info entry also gives it a new,
\* empty queue, and keeps the other ids' entries
ReRegisterReplacesBoth ==
    \A c \in DOMAIN queues \cap DOMAIN queues' :
        clientInfo'[c] # clientInfo[c] =>
            /\ queues'[c] = <<>>
            /\ clientOrder' = clientOrder
            /\ \A d \in DOMAIN queues \ {c} :
                  d \in DOMAIN queues' /\ queues'[d] = queues[d] /\ clientInfo'[d] = clientInfo[d]

\* unregister_client of an id that is not registered leaves the two maps as they are
UnknownUnregisterIsNoOp ==
    (\E c \in ClientIds \ DOMAIN queues : UnregisterClient(c))
        => UNCHANGED <<clientOrder, queues, clientInfo>>

\* C40: after any sequence of register_client, unregister_client and stop() calls a client
\* id has a queue exactly when it has a subscriber-info entry and client_count is the
\* number of registered ids; re-registering an id replaces both of its entries, and
\* unregistering an unknown id changes nothing.
C40_RegistryMapsAgree ==
    /\ []RegistryConsistent
    /\ [][ReRegisterReplacesBoth /\ UnknownUnregisterIsNoOp]_vars

\* C40: the manager has been started and stopped (its two tasks are done), and c2,
\* registered under one topic, is the only id of both maps, its queue holding the one
\* message that was broadcast to it alone.
C40_OneLeftAfterStop ==
    /\ ~running /\ Len(tasks) = 2
    /\ \A t \in DOMAIN tasks : TaskDone(tasks, t)
    /\ DOMAIN queues = {"c2"} /\ DOMAIN clientInfo = {"c2"}
    /\ clientInfo["c2"].topics = {"vks-scores"}
    /\ Len(queues["c2"]) = 1
    /\ bcast.delivered = {"c2"} /\ bcast.skipped = {}
    /\ ClientCount(clientOrder, clientInfo) = 1

=============================================================================
